---- MODULE Spec2Model ----
(***************************************************************************)
(* A model of the deterministic core of AICashAdvisor: the exact-decimal   *)
(* money helpers (backend/money.py), the debt payoff simulator             *)
(* (backend/plans_debt.py), the analytics functions (backend/analytics.py) *)
(* and the transaction normalizer (backend/normalizer.py).                 *)
(*                                                                         *)
(* Python's decimal.Decimal is modelled by what it computes: a value is a  *)
(* record [sign, int, exp, signal] like Decimal's (_sign, _int, _exp), its *)
(* coefficient an arbitrary-size natural number; every arithmetic result   *)
(* is rounded to the context precision of 28 digits (ROUND_HALF_EVEN), and *)
(* quantize signals InvalidOperation when its result needs more digits.    *)
(***************************************************************************)
EXTENDS Integers, Sequences, FiniteSets

(***************************************************************************)
(* Natural numbers of any size: the sequence of base-10000 limbs, least    *)
(* significant first, with no zero limb at the top (zero is << >>).        *)
(***************************************************************************)
LimbBase == 10000
LimbDigits == 4

RECURSIVE BNorm(_)
BNorm(a) ==
    IF a = << >> THEN << >>
    ELSE IF a[Len(a)] = 0 THEN BNorm(SubSeq(a, 1, Len(a) - 1))
    ELSE a

RECURSIVE BFromNat(_)
BFromNat(n) ==
    IF n = 0 THEN << >> ELSE <<n % LimbBase>> \o BFromNat(n \div LimbBase)

RECURSIVE BAddC(_, _, _)
BAddC(a, b, carry) ==
    IF a = << >> /\ b = << >>
    THEN (IF carry = 0 THEN << >> ELSE <<carry>>)
    ELSE LET x == IF a = << >> THEN 0 ELSE a[1]
             y == IF b = << >> THEN 0 ELSE b[1]
             s == x + y + carry
         IN  <<s % LimbBase>> \o
             BAddC(IF a = << >> THEN << >> ELSE Tail(a),
                   IF b = << >> THEN << >> ELSE Tail(b),
                   s \div LimbBase)

BAdd(a, b) == BAddC(a, b, 0)

\* a - b for a >= b
RECURSIVE BSubB(_, _, _)
BSubB(a, b, borrow) ==
    IF a = << >> THEN << >>
    ELSE LET y == IF b = << >> THEN 0 ELSE b[1]
             s == a[1] - y - borrow
         IN  <<IF s < 0 THEN s + LimbBase ELSE s>> \o
             BSubB(Tail(a), IF b = << >> THEN << >> ELSE Tail(b),
                   IF s < 0 THEN 1 ELSE 0)

BSub(a, b) == BNorm(BSubB(a, b, 0))

\* -1, 0, 1 as a < b, a = b, a > b (both normalised)
RECURSIVE BCmpFrom(_, _, _)
BCmpFrom(a, b, i) ==
    IF i = 0 THEN 0
    ELSE IF a[i] < b[i] THEN -1
    ELSE IF a[i] > b[i] THEN 1
    ELSE BCmpFrom(a, b, i - 1)

BCmp(a, b) ==
    IF Len(a) < Len(b) THEN -1
    ELSE IF Len(a) > Len(b) THEN 1
    ELSE BCmpFrom(a, b, Len(a))

RECURSIVE BMulSmallC(_, _, _)
BMulSmallC(a, m, carry) ==
    IF a = << >> THEN BFromNat(carry)
    ELSE LET p == a[1] * m + carry
         IN  <<p % LimbBase>> \o BMulSmallC(Tail(a), m, p \div LimbBase)

\* a * m for 0 <= m < LimbBase
BMulSmall(a, m) == BNorm(BMulSmallC(a, m, 0))

\* a * LimbBase
ShiftLimb(a) == IF a = << >> THEN << >> ELSE <<0>> \o a

RECURSIVE BMul(_, _)
BMul(a, b) ==
    IF a = << >> \/ b = << >> THEN << >>
    ELSE BAdd(BMulSmall(b, a[1]), ShiftLimb(BMul(Tail(a), b)))

\* <<quotient, remainder>> of a by d, 0 < d < LimbBase; limbs taken from the top
RECURSIVE BDivSmallFrom(_, _, _, _, _)
BDivSmallFrom(a, d, i, rem, q) ==
    IF i = 0 THEN << BNorm(q), rem >>
    ELSE BDivSmallFrom(a, d, i - 1, (rem * LimbBase + a[i]) % d,
                       <<(rem * LimbBase + a[i]) \div d>> \o q)

BDivSmall(a, d) == BDivSmallFrom(a, d, Len(a), 0, << >>)

RECURSIVE SmallPow10(_)
SmallPow10(k) == IF k = 0 THEN 1 ELSE 10 * SmallPow10(k - 1)

RECURSIVE SmallDigits(_)
SmallDigits(n) == IF n < 10 THEN 1 ELSE 1 + SmallDigits(n \div 10)

\* the number of decimal digits of a (len(str(a)); 1 for zero, as Decimal's _int "0")
BDigits(a) ==
    IF a = << >> THEN 1
    ELSE LimbDigits * (Len(a) - 1) + SmallDigits(a[Len(a)])

Zeros(n) == [i \in 1..n |-> 0]

\* a * 10^k
BShift10(a, k) ==
    IF a = << >> THEN << >>
    ELSE Zeros(k \div LimbDigits) \o BMulSmall(a, SmallPow10(k % LimbDigits))

BPow10(k) == BShift10(<<1>>, k)

\* <<a div 10^k, a mod 10^k>>
JoinRem(qr, low, nl) ==
    << qr[1], BAdd(BNorm(low), IF qr[2] = 0 THEN << >> ELSE Zeros(nl) \o <<qr[2]>>) >>

BDivPow10(a, k) ==
    LET nl == k \div LimbDigits
    IN  JoinRem(BDivSmall(IF nl >= Len(a) THEN << >> ELSE SubSeq(a, nl + 1, Len(a)),
                          SmallPow10(k % LimbDigits)),
                IF nl >= Len(a) THEN a ELSE SubSeq(a, 1, nl),
                nl)

BIsOdd(a) == a # << >> /\ a[1] % 2 = 1

\* a small natural again (for coefficients known to fit)
RECURSIVE BToNat(_)
BToNat(a) == IF a = << >> THEN 0 ELSE a[1] + LimbBase * BToNat(Tail(a))

(***************************************************************************)
(* decimal.Decimal.  Prec is the default context's precision; the default  *)
(* context rounds ROUND_HALF_EVEN.  A signalled InvalidOperation (which    *)
(* Python raises as an exception) is the value InvalidOperation, and every *)
(* operation on it yields it again: the caller tests IsSignal and raises.  *)
(***************************************************************************)
Prec == 28

Dec(sign, int, exp) == [sign |-> sign, int |-> int, exp |-> exp, signal |-> "none"]

InvalidOperation == [sign |-> 0, int |-> << >>, exp |-> 0, signal |-> "InvalidOperation"]

IsSignal(d) == d.signal # "none"

\* Decimal(str(n)) for an integer n of cents, thousandths, ...: n * 10^exp
DecOf(n, exp) == Dec(IF n < 0 THEN 1 ELSE 0, BFromNat(IF n < 0 THEN -n ELSE n), exp)

DecZero == DecOf(0, 0)

IsZero(d) == d.int = << >>

\* Decimal.adjusted(): the exponent of the most significant digit
Adjusted(d) == d.exp + BDigits(d.int) - 1

\* Whether the rounding mode rounds the magnitude q up, given the discarded
\* remainder r of a division by 10^drop
RoundsUp(mode, q, r, drop) ==
    LET c == BCmp(r, BMulSmall(BPow10(drop - 1), 5))
    IN  IF mode = "ROUND_HALF_UP" THEN c >= 0
        ELSE \* ROUND_HALF_EVEN
             c > 0 \/ (c = 0 /\ BIsOdd(q))

\* Decimal._rescale(exp, rounding): the value with exponent exp
Rounded(mode, qr, drop) ==
    IF RoundsUp(mode, qr[1], qr[2], drop) THEN BAdd(qr[1], <<1>>) ELSE qr[1]

Rescale(d, exp, mode) ==
    IF IsZero(d) THEN Dec(d.sign, << >>, exp)
    ELSE IF d.exp >= exp THEN Dec(d.sign, BShift10(d.int, d.exp - exp), exp)
    ELSE Dec(d.sign, Rounded(mode, BDivPow10(d.int, exp - d.exp), exp - d.exp), exp)

\* Decimal._fix(context): round to at most Prec digits, ROUND_HALF_EVEN
\* a coefficient rounded up to 10^Prec is 10^(Prec-1) with the next exponent
Carried(r) ==
    IF BDigits(r.int) > Prec
    THEN Dec(r.sign, BDivPow10(r.int, 1)[1], r.exp + 1)
    ELSE r

Fix(d) ==
    IF IsSignal(d) THEN d
    ELSE IF BDigits(d.int) <= Prec THEN d
    ELSE Carried(Rescale(d, d.exp + (BDigits(d.int) - Prec), "ROUND_HALF_EVEN"))

WithinPrec(ans) == IF BDigits(ans.int) > Prec THEN InvalidOperation ELSE ans

\* Decimal.quantize(Decimal("1e<exp>"), rounding=mode)
Quantize(d, exp, mode) ==
    IF IsSignal(d) THEN d
    ELSE IF IsZero(d) THEN Dec(d.sign, << >>, exp)
    ELSE IF Adjusted(d) - exp + 1 > Prec THEN InvalidOperation
    ELSE WithinPrec(Rescale(d, exp, mode))

\* the coefficient of d at exponent e <= d.exp
CoefAt(d, e) == BShift10(d.int, d.exp - e)

MinExp(a, b) == IF a.exp < b.exp THEN a.exp ELSE b.exp

\* -1, 0, 1 as a < b, a = b, a > b (Decimal._cmp)
Signum(d) == IF IsZero(d) THEN 0 ELSE IF d.sign = 1 THEN -1 ELSE 1

DecCmp(a, b) ==
    IF Signum(a) # Signum(b) THEN (IF Signum(a) < Signum(b) THEN -1 ELSE 1)
    ELSE IF Signum(a) = 0 THEN 0
    ELSE Signum(a) * BCmp(CoefAt(a, MinExp(a, b)), CoefAt(b, MinExp(a, b)))

DecLt(a, b) == DecCmp(a, b) < 0
DecLe(a, b) == DecCmp(a, b) <= 0
DecGt(a, b) == DecCmp(a, b) > 0
DecEq(a, b) == DecCmp(a, b) = 0
DecGe(a, b) == DecCmp(a, b) >= 0

\* Decimal.copy_negate()
CopyNegate(a) == IF IsSignal(a) THEN a ELSE Dec(1 - a.sign, a.int, a.exp)

\* Decimal.__neg__: the negation of zero is the positive zero
DecNeg(a) ==
    IF IsSignal(a) THEN a
    ELSE IF IsZero(a) THEN Dec(0, a.int, a.exp)
    ELSE Fix(Dec(1 - a.sign, a.int, a.exp))

\* Decimal.__abs__
DecAbs(a) == IF IsSignal(a) THEN a ELSE Fix(Dec(0, a.int, a.exp))

\* Decimal.__add__: the exact sum, rounded to the context precision
\* the signed sum of the coefficients x (sign sa) and y (sign sb) at exponent e
SignedSum(sa, x, sb, y, e) ==
    IF sa = sb THEN Dec(sa, BAdd(x, y), e)
    ELSE IF BCmp(x, y) = 0 THEN Dec(0, << >>, e)
    ELSE IF BCmp(x, y) > 0 THEN Dec(sa, BSub(x, y), e)
    ELSE Dec(sb, BSub(y, x), e)

DecAdd(a, b) ==
    IF IsSignal(a) \/ IsSignal(b) THEN InvalidOperation
    ELSE Fix(SignedSum(a.sign, CoefAt(a, MinExp(a, b)),
                       b.sign, CoefAt(b, MinExp(a, b)), MinExp(a, b)))

\* Decimal.__sub__
DecSub(a, b) == DecAdd(a, CopyNegate(b))

\* Decimal.__mul__: the exact product, rounded to the context precision
DecMul(a, b) ==
    IF IsSignal(a) \/ IsSignal(b) THEN InvalidOperation
    ELSE Fix(Dec(IF a.sign = b.sign THEN 0 ELSE 1, BMul(a.int, b.int), a.exp + b.exp))

\* strip trailing zeros of an exact quotient while exp < ideal
RECURSIVE TowardIdeal(_, _, _)
TowardIdeal(coeff, exp, ideal) ==
    IF exp < ideal /\ coeff # << >> /\ coeff[1] % 10 = 0
    THEN TowardIdeal(BDivSmall(coeff, 10)[1], exp + 1, ideal)
    ELSE << coeff, exp >>

\* Decimal.__truediv__ by the positive integer n < LimbBase (Decimal(n), exponent
\* 0): the quotient to Prec + 1 digits, made inexact-sticky, then _fix
\* the quotient <<coeff, remainder>> at exponent exp, as Decimal finishes it
Quotient(sign, qr, exp, ideal) ==
    IF qr[2] # 0
    THEN Fix(Dec(sign,
                 IF qr[1] = << >> \/ qr[1][1] % 5 = 0
                 THEN BAdd(qr[1], <<1>>) ELSE qr[1],
                 exp))
    ELSE Fix(Dec(sign, TowardIdeal(qr[1], exp, ideal)[1], TowardIdeal(qr[1], exp, ideal)[2]))

\* the quotient of a coefficient by n * 10^k, with a remainder of 0 or not 0
DivShifted(c, n, k) ==
    << BDivPow10(BDivSmall(c, n)[1], k)[1],
       IF BMul(BDivPow10(BDivSmall(c, n)[1], k)[1], BShift10(BFromNat(n), k)) = c
       THEN 0 ELSE 1 >>

DecDivNat(a, n) ==
    IF IsSignal(a) THEN a
    ELSE IF IsZero(a) THEN Dec(a.sign, << >>, a.exp)
    ELSE LET shift == SmallDigits(n) - BDigits(a.int) + Prec + 1
         IN  Quotient(a.sign,
                      IF shift >= 0
                      THEN BDivSmall(BShift10(a.int, shift), n)
                      ELSE DivShifted(a.int, n, -shift),
                      a.exp - shift, a.exp)

\* min(a, b) of Python: b only when b < a
DecMin(a, b) ==
    IF IsSignal(a) \/ IsSignal(b) THEN InvalidOperation
    ELSE IF DecLt(b, a) THEN b ELSE a

(***************************************************************************)
(* backend/money.py                                                        *)
(***************************************************************************)
\* to_decimal: a Decimal is returned as it is (the isinstance branch); the
\* amounts of this model are Decimals already.
to_decimal(amount) == amount

quantize_cents(value) == Quantize(value, -2, "ROUND_HALF_UP")

(***************************************************************************)
(* Python values.  A str is the sequence of its characters, None and the   *)
(* exceptions a call raises are records of their own type.                 *)
(***************************************************************************)
None == [type |-> "NoneType"]

Str(chars) == [type |-> "str", value |-> chars]

\* raise exception(value)
Raise(exception, value) == [type |-> "raise", exception |-> exception, value |-> value]

IsRaise(v) == v.type = "raise"

\* bool(v) of a str or None
Truthy(v) == v.type = "str" /\ v.value # << >>

\* a or b
Or(a, b) == IF Truthy(a) THEN a ELSE b

DigitChars == <<"0", "1", "2", "3", "4", "5", "6", "7", "8", "9">>

IsDigit(c) == \E n \in 1..10 : DigitChars[n] = c

DigitVal(c) == (CHOOSE n \in 1..10 : DigitChars[n] = c) - 1

\* str(n) of an int n >= 0
RECURSIVE NatChars(_)
NatChars(n) ==
    IF n < 10 THEN <<DigitChars[n + 1]>>
    ELSE Append(NatChars(n \div 10), DigitChars[(n % 10) + 1])

\* int(s) of a str of digits
RECURSIVE NatOfChars(_)
NatOfChars(s) ==
    IF s = << >> THEN 0
    ELSE 10 * NatOfChars(SubSeq(s, 1, Len(s) - 1)) + DigitVal(s[Len(s)])

\* the digits of one limb, zero-padded
LimbChars(l) ==
    <<DigitChars[(l \div 1000) + 1], DigitChars[((l \div 100) % 10) + 1],
      DigitChars[((l \div 10) % 10) + 1], DigitChars[(l % 10) + 1]>>

RECURSIVE LowerLimbChars(_, _)
LowerLimbChars(a, i) ==
    IF i = 0 THEN << >> ELSE LimbChars(a[i]) \o LowerLimbChars(a, i - 1)

\* Decimal._int: the digits of the coefficient, "0" for zero
CoefChars(a) ==
    IF a = << >> THEN <<"0">>
    ELSE NatChars(a[Len(a)]) \o LowerLimbChars(a, Len(a) - 1)

\* the coefficient a str of digits denotes (int(intpart + fracpart)): limb i is
\* the number the i-th group of LimbDigits digits from the right denotes
CoefOfChars(s) ==
    LET limbs == (Len(s) + LimbDigits - 1) \div LimbDigits
        first(i) == IF Len(s) - LimbDigits * i + 1 < 1 THEN 1 ELSE Len(s) - LimbDigits * i + 1
    IN  BNorm([i \in 1..limbs |->
                 NatOfChars(SubSeq(s, first(i), Len(s) - LimbDigits * (i - 1)))])

ZeroChars(n) == [i \in 1..n |-> "0"]

\* Decimal.__str__: scientific notation when the exponent is positive or more
\* than six zeros would follow the point
DecimalStr(d) ==
    LET int == CoefChars(d.int)
        sign == IF d.sign = 1 THEN <<"-">> ELSE << >>
        leftdigits == d.exp + Len(int)
        dotplace == IF d.exp <= 0 /\ leftdigits > -6 THEN leftdigits ELSE 1
        intpart == IF dotplace <= 0 THEN <<"0">>
                   ELSE IF dotplace >= Len(int) THEN int \o ZeroChars(dotplace - Len(int))
                   ELSE SubSeq(int, 1, dotplace)
        fracpart == IF dotplace <= 0 THEN <<".">> \o ZeroChars(- dotplace) \o int
                    ELSE IF dotplace >= Len(int) THEN << >>
                    ELSE <<".">> \o SubSeq(int, dotplace + 1, Len(int))
        exp == IF leftdigits = dotplace THEN << >>
               ELSE IF leftdigits < dotplace
                    THEN <<"E", "-">> \o NatChars(dotplace - leftdigits)
                    ELSE <<"E", "+">> \o NatChars(leftdigits - dotplace)
    IN  sign \o intpart \o fracpart \o exp

\* the index after the digits that start at index i of s
RECURSIVE DigitsEnd(_, _)
DigitsEnd(s, i) == IF i <= Len(s) /\ IsDigit(s[i]) THEN DigitsEnd(s, i + 1) ELSE i

\* Decimal(s) of a str s of digits, signs, a point and an exponent mark: the
\* number s denotes, exactly, or InvalidOperation when s is no numeral
DecimalOfStr(s) ==
    LET signed == s # << >> /\ s[1] \in {"+", "-"}
        sign == IF signed /\ s[1] = "-" THEN 1 ELSE 0
        i0 == IF signed THEN 2 ELSE 1
        i1 == DigitsEnd(s, i0)
        dot == i1 <= Len(s) /\ s[i1] = "."
        f0 == IF dot THEN i1 + 1 ELSE i1
        f1 == DigitsEnd(s, f0)
        hasExp == f1 <= Len(s) /\ s[f1] \in {"e", "E"}
        expSigned == hasExp /\ f1 + 1 <= Len(s) /\ s[f1 + 1] \in {"+", "-"}
        e0 == IF hasExp THEN (IF expSigned THEN f1 + 2 ELSE f1 + 1) ELSE f1
        e1 == DigitsEnd(s, e0)
        exp == IF ~ hasExp THEN 0
               ELSE IF expSigned /\ s[f1 + 1] = "-"
                    THEN - NatOfChars(SubSeq(s, e0, e1 - 1))
                    ELSE NatOfChars(SubSeq(s, e0, e1 - 1))
    IN  IF /\ i1 > i0 \/ (dot /\ f1 > f0)
           /\ hasExp => e1 > e0
           /\ e1 = Len(s) + 1
        THEN Dec(sign, CoefOfChars(SubSeq(s, i0, i1 - 1) \o SubSeq(s, f0, f1 - 1)),
                 exp - (f1 - f0))
        ELSE InvalidOperation

(***************************************************************************)
(* float(Decimal): the IEEE 754 double nearest to the value, ties to the    *)
(* even mantissa.  A float is its sign, its 53-bit mantissa and the power   *)
(* of two that scales it: mant * 2^exp2, zero with an empty mantissa.       *)
(***************************************************************************)
RECURSIVE SmallPow2(_)
SmallPow2(n) == IF n = 0 THEN 1 ELSE 2 * SmallPow2(n - 1)

\* 2^n
RECURSIVE BPow2(_)
BPow2(n) == IF n <= 13 THEN BFromNat(SmallPow2(n)) ELSE BMulSmall(BPow2(n - 13), 8192)

\* << floor(a / 2^t), whether a is a multiple of 2^t >>
RECURSIVE BDivPow2(_, _)
BDivPow2(a, t) ==
    IF t = 0 THEN << a, TRUE >>
    ELSE LET step == IF t < 13 THEN t ELSE 13
             qr == BDivSmall(a, SmallPow2(step))
             rest == BDivPow2(qr[1], t - step)
         IN  << rest[1], rest[2] /\ qr[2] = 0 >>

Max0(n) == IF n > 0 THEN n ELSE 0

\* << floor(|d| * 2^s), whether |d| * 2^s is that integer >>
FloorScaled(d, s) ==
    LET P == BMul(BShift10(d.int, Max0(d.exp)), BPow2(Max0(s)))
        byTen == BDivPow10(P, Max0(-d.exp))
        byTwo == BDivPow2(byTen[1], Max0(-s))
    IN  << byTwo[1], byTwo[2] /\ byTen[2] = << >> >>

Two52 == BPow2(52)

Two53 == BMulSmall(Two52, 2)

\* the s with 2^52 <= |d| * 2^s < 2^53, d not zero: 52 - floor(log2 |d|), which
\* the number of decimal digits of |d| gives to within a few
BinaryScale(d) ==
    LET digits == BDigits(d.int) + d.exp
        low == (33219 * (digits - 1)) \div 10000
    IN  CHOOSE s \in (52 - low - 5)..(52 - low + 1) :
            /\ BCmp(FloorScaled(d, s)[1], Two52) >= 0
            /\ BCmp(FloorScaled(d, s)[1], Two53) < 0

Float(sign, mant, exp2) == [type |-> "float", sign |-> sign, mant |-> mant, exp2 |-> exp2]

\* float(d) of a Decimal d in the range of the normal doubles
FloatOf(d) ==
    IF IsZero(d) THEN Float(d.sign, << >>, 0)
    ELSE LET s == BinaryScale(d)
             twice == FloorScaled(d, s + 1)
             half == BDivSmall(twice[1], 2)
             up == half[2] = 1 /\ (~ twice[2] \/ BIsOdd(half[1]))
             mant == IF up THEN BAdd(half[1], <<1>>) ELSE half[1]
         IN  IF mant = Two53 THEN Float(d.sign, Two52, 1 - s)
             ELSE Float(d.sign, mant, -s)

(***************************************************************************)
(* backend/plans_debt.py: payoff_plan.                                     *)
(*                                                                         *)
(* Debt objects live in a heap (heap[id] is the object's fields) and a     *)
(* list is a sequence of object ids, so that a copy and an alias differ:   *)
(* lists.caller is the list object the caller passed, lists.local the one  *)
(* the list comprehension of line 45 builds, and the name `debts` is bound *)
(* to one of the two.  `given` keeps the arguments as they were passed.    *)
(*                                                                         *)
(* One iteration of the while loop is one step.  The heap as it stood at   *)
(* the points of the last iteration is kept: at_begin (line 64),           *)
(* after_interest (line 73), after_minimums (line 80), and remaining_extra *)
(* is the local of that name when the walk of lines 83-90 ends.            *)
(***************************************************************************)
VARIABLES pc, heap, lists, debts, extra_payment, method, month, schedule,
          result, given, at_begin, after_interest, after_minimums,
          remaining_extra

payoffVars == <<pc, heap, lists, debts, extra_payment, method, month,
                schedule, result, given, at_begin, after_interest,
                after_minimums, remaining_extra>>

\* the argument and the results of the calls of backend/analytics.py, and the
\* argument and the result of the call of backend/normalizer.py
VARIABLES transactions, summary, recurring, raw_transactions, normalized

\* the arguments of the call of backend/csv_ingest.py (the file as csv.reader
\* splits it into rows of fields), and the position of that call
VARIABLES csvfile, column_map, ingest_pc

\* the call of payoff_plan of plans_dep.py: its position, its Debt objects and
\* the list of them, its month, schedule and result
VARIABLES dep_pc, dep_heap, dep_debts, dep_month, dep_schedule, dep_result

depVars == <<dep_pc, dep_heap, dep_debts, dep_month, dep_schedule, dep_result>>

analyticsVars == <<transactions, summary, recurring>>

normalizerVars == <<raw_transactions, normalized, csvfile, column_map, ingest_pc>>

vars == <<payoffVars, analyticsVars, normalizerVars, depVars>>

\* the value of a result before the call is made
NotCalled == [type |-> "NotCalled"]

\* no file is being ingested
NoIngest ==
    /\ csvfile = [fieldnames |-> << >>, rows |-> << >>]
    /\ column_map = << >>
    /\ ingest_pc = "idle"

\* no call of backend/analytics.py or backend/normalizer.py is under way
OthersIdle ==
    /\ transactions = << >>
    /\ summary = NotCalled
    /\ recurring = NotCalled
    /\ raw_transactions = << >>
    /\ normalized = NotCalled
    /\ NoIngest

Debt(name, balance, apr, min_payment) ==
    [name |-> name, balance |-> balance, apr |-> apr, min_payment |-> min_payment]

max_months == 600

_monthly_rate(apr) == DecDivNat(apr, 12)

\* the two methods' keys exchanged
SwappedKey(d, m) ==
    IF m = "snowball" THEN << DecNeg(d.apr), d.balance >>
    ELSE << d.balance, DecNeg(d.apr) >>

\* the key of line 57, a pair of Decimals
sort_key(d, m) ==
    IF m = "avalanche" THEN << DecNeg(d.apr), d.balance >>
    ELSE << d.balance, DecNeg(d.apr) >>

\* tuple comparison k < l
KeyLess(k, l) ==
    IF ~ DecEq(k[1], l[1]) THEN DecLt(k[1], l[1]) ELSE DecLt(k[2], l[2])

\* list.sort(key=...): a stable sort; x goes after every element not greater
RECURSIVE InsertByKey(_, _, _, _)
InsertByKey(sorted, x, h, m) ==
    IF sorted = << >> THEN <<x>>
    ELSE IF KeyLess(sort_key(h[x], m), sort_key(h[Head(sorted)], m))
         THEN <<x>> \o sorted
         ELSE <<Head(sorted)>> \o InsertByKey(Tail(sorted), x, h, m)

RECURSIVE SortFrom(_, _, _, _, _)
SortFrom(ids, i, acc, h, m) ==
    IF i > Len(ids) THEN acc
    ELSE SortFrom(ids, i + 1, InsertByKey(acc, ids[i], h, m), h, m)

SortDebts(ids, h, m) == SortFrom(ids, 1, << >>, h, m)

Positive(v) == ~ IsSignal(v) /\ DecGt(v, DecZero)

\* lines 71-72, for one debt with balance > 0
WithInterest(d) ==
    LET interest == quantize_cents(DecMul(d.balance, _monthly_rate(d.apr)))
    IN  quantize_cents(DecAdd(d.balance, interest))

\* lines 68-72: the heap after the interest loop over the list ids, from
\* position i on
RECURSIVE InterestLoop(_, _, _)
InterestLoop(h, ids, i) ==
    IF i > Len(ids) THEN h
    ELSE IF ~ Positive(h[ids[i]].balance) THEN InterestLoop(h, ids, i + 1)
    ELSE InterestLoop([h EXCEPT ![ids[i]].balance = WithInterest(h[ids[i]])],
                      ids, i + 1)

AccrueInterest(h, ids) == InterestLoop(h, ids, 1)

\* lines 78-79, for one debt with balance > 0
AfterMinimum(d) ==
    LET payment == DecMin(d.min_payment, d.balance)
    IN  quantize_cents(DecSub(d.balance, payment))

\* lines 75-79, from position i on
RECURSIVE MinimumLoop(_, _, _)
MinimumLoop(h, ids, i) ==
    IF i > Len(ids) THEN h
    ELSE IF ~ Positive(h[ids[i]].balance) THEN MinimumLoop(h, ids, i + 1)
    ELSE MinimumLoop([h EXCEPT ![ids[i]].balance = AfterMinimum(h[ids[i]])],
                     ids, i + 1)

\* every debt charged its whole minimum payment, owed or not
RECURSIVE NaiveMinimumLoop(_, _, _)
NaiveMinimumLoop(h, ids, i) ==
    IF i > Len(ids) THEN h
    ELSE NaiveMinimumLoop(
             [h EXCEPT ![ids[i]].balance = quantize_cents(DecSub(@, h[ids[i]].min_payment))],
             ids, i + 1)

NaiveMinimums(h, ids) == NaiveMinimumLoop(h, ids, 1)

PayMinimums(h, ids) == MinimumLoop(h, ids, 1)

\* lines 83-90 from position i on: the heap and the remaining extra when the
\* walk ends
RECURSIVE ExtraWalk(_, _, _, _)
ExtraWalk(h, ids, i, remaining) ==
    IF i > Len(ids) THEN [heap |-> h, remaining_extra |-> remaining]
    ELSE IF ~ Positive(remaining)
         THEN [heap |-> h, remaining_extra |-> remaining]
    ELSE IF ~ Positive(h[ids[i]].balance)
         THEN ExtraWalk(h, ids, i + 1, remaining)
    ELSE LET pay == DecMin(remaining, h[ids[i]].balance)
         IN  ExtraWalk([h EXCEPT ![ids[i]].balance = quantize_cents(DecSub(@, pay))],
                       ids, i + 1, quantize_cents(DecSub(remaining, pay)))

\* the position in the list of the first debt with balance > 0
FirstOwed(h, ids) ==
    CHOOSE i \in 1..Len(ids) :
        Positive(h[ids[i]].balance) /\ \A j \in 1..(i - 1) : ~ Positive(h[ids[j]].balance)

\* the whole extra payment paid to the first debt owed, whatever its balance
OverpayExtra(h, ids, extra) ==
    IF ~ Positive(extra) \/ ~ \E i \in 1..Len(ids) : Positive(h[ids[i]].balance)
    THEN [heap |-> h, remaining_extra |-> extra]
    ELSE [heap |-> [h EXCEPT ![ids[FirstOwed(h, ids)]].balance = quantize_cents(DecSub(@, extra))],
          remaining_extra |-> quantize_cents(DecSub(extra, extra))]

\* the extra payment offered to the first debt owed only
FirstOnlyExtra(h, ids, extra) ==
    IF ~ Positive(extra) \/ ~ \E i \in 1..Len(ids) : Positive(h[ids[i]].balance)
    THEN [heap |-> h, remaining_extra |-> extra]
    ELSE LET pay == DecMin(extra, h[ids[FirstOwed(h, ids)]].balance)
         IN  [heap |-> [h EXCEPT ![ids[FirstOwed(h, ids)]].balance = quantize_cents(DecSub(@, pay))],
              remaining_extra |-> quantize_cents(DecSub(extra, pay))]

\* lines 82-90
ApplyExtra(h, ids, extra) == ExtraWalk(h, ids, 1, extra)

\* a snapshot of the debts still owed only
SnapshotOwedOnly(h, ids, m) ==
    LET owed(o) == Positive(h[o].balance)
        left == SelectSeq(ids, owed)
    IN  [month |-> m,
         debts |-> [i \in 1..Len(left) |->
                      [name |-> h[left[i]].name, balance |-> DecimalStr(h[left[i]].balance)]]]

\* lines 92-97
Snapshot(h, ids, m) ==
    [month |-> m,
     debts |-> [i \in 1..Len(ids) |->
                  [name |-> h[ids[i]].name, balance |-> DecimalStr(h[ids[i]].balance)]]]

\* any(d.balance > 0 for d in debts)
AnyOwed(h, ids) == \E i \in 1..Len(ids) : Positive(h[ids[i]].balance)

\* the condition of the while loop with the cap off by one
LoopGuardOffByOne(m, h, ids) == m <= max_months /\ AnyOwed(h, ids)

\* line 63: the condition of the while loop
LoopGuard(m, h, ids) == m < max_months /\ AnyOwed(h, ids)

\* done reported when any debt is paid
AnyPaid(h, ids) == \E i \in 1..Len(ids) : ~ Positive(h[ids[i]].balance)

\* line 103: all(d.balance <= 0 for d in debts)
AllPaid(h, ids) == \A i \in 1..Len(ids) : ~ Positive(h[ids[i]].balance)

\* an arithmetic step of the month raised decimal.InvalidOperation
Signalled(h, ids) == \E i \in 1..Len(ids) : IsSignal(h[ids[i]].balance)

\* the caller's list and objects used as they are
AliasingCopy(h, ls) == [heap |-> h, lists |-> ls, debts |-> "caller"]

\* lines 45-53: new Debt objects in a new list
DefensiveCopy(h, ls) ==
    LET n == Len(ls.caller)
        obj(i) == h[ls.caller[i]]
    IN  [heap |-> [o \in 1..(2 * n) |->
                     IF o <= n THEN h[o]
                     ELSE Debt(obj(o - n).name,
                               quantize_cents(to_decimal(obj(o - n).balance)),
                               to_decimal(obj(o - n).apr),
                               quantize_cents(to_decimal(obj(o - n).min_payment)))],
         lists |-> [ls EXCEPT !.local = [i \in 1..n |-> n + i]],
         debts |-> "local"]

NoResult == [method |-> "", months |-> -1, schedule |-> << >>, done |-> FALSE]

\* payoff_plan of plans_dep.py has the position p, and has not run
DepAt(p) ==
    /\ dep_pc = p
    /\ dep_heap = << >>
    /\ dep_debts = << >>
    /\ dep_month = 0
    /\ dep_schedule = << >>
    /\ dep_result = NoResult

DepIdle == DepAt("idle")

\* lines 45-61
Call ==
    /\ pc = "call"
    /\ LET c == DefensiveCopy(heap, lists)
           e == quantize_cents(to_decimal(extra_payment))
       IN  /\ heap' = c.heap
           /\ lists' = c.lists
           /\ debts' = c.debts
           /\ extra_payment' = e
           /\ pc' = IF IsSignal(e) \/ \E o \in DOMAIN c.heap :
                          IsSignal(c.heap[o].balance) \/ IsSignal(c.heap[o].min_payment)
                    THEN "raised" ELSE "loop"
    /\ month' = 0
    /\ schedule' = << >>
    /\ at_begin' = heap'
    /\ after_interest' = heap'
    /\ after_minimums' = heap'
    /\ UNCHANGED <<method, result, given, remaining_extra>>
    /\ UNCHANGED <<analyticsVars, normalizerVars, depVars>>

\* lines 63-97: one iteration of the while loop
Month ==
    /\ pc = "loop"
    /\ LoopGuard(month, heap, lists[debts])
    /\ month' = month + 1
    /\ at_begin' = heap
    /\ lists' = [lists EXCEPT ![debts] = SortDebts(lists[debts], heap, method)]
    /\ after_interest' = AccrueInterest(heap, lists'[debts])
    /\ after_minimums' = PayMinimums(after_interest', lists'[debts])
    /\ \E w \in { ApplyExtra(after_minimums', lists'[debts], extra_payment) } :
          /\ heap' = w.heap
          /\ remaining_extra' = w.remaining_extra
    /\ IF Signalled(heap', lists'[debts])
       THEN /\ pc' = "raised"
            /\ schedule' = schedule
       ELSE /\ pc' = "loop"
            /\ schedule' = Append(schedule, Snapshot(heap', lists'[debts], month'))
    /\ UNCHANGED <<debts, extra_payment, method, result, given>>
    /\ UNCHANGED <<analyticsVars, normalizerVars, depVars>>

\* lines 99-104
Return ==
    /\ pc = "loop"
    /\ ~ LoopGuard(month, heap, lists[debts])
    /\ pc' = "done"
    /\ result' = [method |-> method, months |-> month, schedule |-> schedule,
                  done |-> AllPaid(heap, lists[debts])]
    /\ UNCHANGED <<heap, lists, debts, extra_payment, method, month, schedule, given,
                   at_begin, after_interest, after_minimums, remaining_extra>>
    /\ UNCHANGED <<analyticsVars, normalizerVars, depVars>>

(***************************************************************************)
(* The arguments payoff_plan is called with.                               *)
(***************************************************************************)
\* Decimal("<cents>e<exp>")
Money(n) == DecOf(n, -2)

\* debts that are paid off within a few months by their minimum payments
ShortPool ==
    << Debt("a", Money(300), Money(12), Money(50)),
       Debt("b", Money(400), Money(12), Money(200)),
       Debt("c", Money(0), Money(24), Money(100)),
       Debt("d", DecOf(10005, -3), Money(6), DecOf(2004, -3)),
       Debt("e", Money(200), Money(30), Money(100)) >>

ExtraPool == { Money(0), Money(50), Money(-100), DecOf(1005, -3) }

Methods == { "avalanche", "snowball" }

MaxDebts == 2

\* sequences of at most n distinct indices of the pool
RECURSIVE Picks(_)
Picks(n) ==
    IF n = 0 THEN { << >> }
    ELSE LET shorter == Picks(n - 1)
         IN  shorter \cup
             { Append(p, k) : p \in { q \in shorter : Len(q) = n - 1 },
                              k \in 1..Len(ShortPool) } 

DistinctPicks(n) ==
    { p \in Picks(n) : \A i, j \in 1..Len(p) : i # j => p[i] # p[j] }

ShortArgs ==
    { [debts |-> [i \in 1..Len(p) |-> ShortPool[p[i]]], extra_payment |-> e, method |-> m] :
        p \in DistinctPicks(MaxDebts), e \in ExtraPool, m \in Methods }

\* debt loads that run to the cap of 600 months, or beyond Decimal's precision
Grow == Debt("grow", Money(10000), Money(24), Money(100))
Tie == Debt("tie", Money(2400), DecOf(25, -4), Money(0))
Slow == Debt("slow", Money(600), Money(0), Money(1))
Slower == Debt("slower", Money(601), Money(0), Money(1))
Boom == Debt("boom", Money(10000), DecOf(12, 0), Money(0))

\* two debts of which the extra payment pays off the first and part of the second
Part == Debt("part", Money(100), Money(12), Money(80))
Rest == Debt("rest", Money(500), Money(6), Money(100))

\* an account in credit: nothing is owed
Credit == Debt("credit", Money(-500), Money(12), Money(100))

LongArgs ==
    { [debts |-> <<Grow>>, extra_payment |-> Money(0), method |-> "avalanche"],
      [debts |-> <<Tie>>, extra_payment |-> Money(0), method |-> "avalanche"],
      [debts |-> <<Slow>>, extra_payment |-> Money(0), method |-> "snowball"],
      [debts |-> <<Slower>>, extra_payment |-> Money(0), method |-> "snowball"],
      [debts |-> <<Boom>>, extra_payment |-> Money(0), method |-> "avalanche"],
      [debts |-> <<Credit>>, extra_payment |-> Money(50), method |-> "snowball"],
      [debts |-> <<Rest, Part>>, extra_payment |-> Money(50), method |-> "avalanche"],
      [debts |-> <<ShortPool[1], Grow>>, extra_payment |-> Money(-100), method |-> "snowball"],
      [debts |-> <<Grow, ShortPool[3]>>, extra_payment |-> Money(50), method |-> "avalanche"] }

\* payoff_plan of backend/plans_debt.py is called, with any of the arguments
PayoffCalled ==
    \E long \in BOOLEAN : \E a \in IF long THEN LongArgs ELSE ShortArgs :
        /\ pc = "call"
        /\ given = a
        /\ heap = [o \in 1..Len(a.debts) |-> a.debts[o]]
        /\ lists = [caller |-> [i \in 1..Len(a.debts) |-> i], local |-> << >>]
        /\ debts = "caller"
        /\ extra_payment = a.extra_payment
        /\ method = a.method
        /\ month = 0
        /\ schedule = << >>
        /\ result = NoResult
        /\ at_begin = heap
        /\ after_interest = heap
        /\ after_minimums = heap
        /\ remaining_extra = a.extra_payment
        /\ OthersIdle

PayoffInit == PayoffCalled /\ DepIdle

PayoffNext == Call \/ Month \/ Return

Spec == PayoffInit /\ [][PayoffNext]_vars

(***************************************************************************)
(* plans_dep.py: payoff_plan, the simulator backend/plans_debt.py          *)
(* replaces.  It is called after the call of backend/plans_debt.py has     *)
(* ended, with the objects and the extra payment that call was given.      *)
(***************************************************************************)
\* line 55, for one debt with balance > 0: quantize with the rounding of the
\* context, ROUND_HALF_EVEN; line 56
DepWithInterest(d) ==
    LET interest == Quantize(DecMul(d.balance, _monthly_rate(d.apr)), -2, "ROUND_HALF_EVEN")
    IN  DecAdd(d.balance, interest)

\* lines 53-56, from position i on
RECURSIVE DepInterestLoop(_, _, _)
DepInterestLoop(h, ids, i) ==
    IF i > Len(ids) THEN h
    ELSE IF ~ Positive(h[ids[i]].balance) THEN DepInterestLoop(h, ids, i + 1)
    ELSE DepInterestLoop([h EXCEPT ![ids[i]].balance = DepWithInterest(h[ids[i]])],
                         ids, i + 1)

\* lines 59-63, from position i on
RECURSIVE DepMinimumLoop(_, _, _)
DepMinimumLoop(h, ids, i) ==
    IF i > Len(ids) THEN h
    ELSE IF ~ Positive(h[ids[i]].balance) THEN DepMinimumLoop(h, ids, i + 1)
    ELSE DepMinimumLoop(
             [h EXCEPT ![ids[i]].balance = DecSub(@, DecMin(h[ids[i]].min_payment, @))],
             ids, i + 1)

\* lines 67-74, from position i on: the heap when the walk ends
RECURSIVE DepExtraWalk(_, _, _, _)
DepExtraWalk(h, ids, i, remaining) ==
    IF i > Len(ids) THEN h
    ELSE IF ~ Positive(remaining) THEN h
    ELSE IF ~ Positive(h[ids[i]].balance) THEN DepExtraWalk(h, ids, i + 1, remaining)
    ELSE LET payment == DecMin(remaining, h[ids[i]].balance)
         IN  DepExtraWalk([h EXCEPT ![ids[i]].balance = DecSub(@, payment)],
                          ids, i + 1, DecSub(remaining, payment))

\* lines 77-80: the balances as floats
DepSnapshot(h, ids, m) ==
    [month |-> m,
     debts |-> [i \in 1..Len(ids) |->
                  [name |-> h[ids[i]].name, balance |-> FloatOf(h[ids[i]].balance)]]]

\* line 40: new Debt objects of the caller's, Decimal(x) of a Decimal x being x
DepCopy(h, ids) ==
    [i \in 1..Len(ids) |->
        Debt(h[ids[i]].name, h[ids[i]].balance, h[ids[i]].apr, h[ids[i]].min_payment)]

\* lines 40-46
DepCall ==
    /\ dep_pc = "call"
    /\ pc \in {"done", "raised"}
    /\ dep_heap' = DepCopy(heap, lists.caller)
    /\ dep_debts' = [i \in 1..Len(lists.caller) |-> i]
    /\ dep_month' = 0
    /\ dep_schedule' = << >>
    /\ dep_pc' = "loop"
    /\ UNCHANGED dep_result
    /\ UNCHANGED <<payoffVars, analyticsVars, normalizerVars>>

\* lines 48-80: one iteration of the while loop; key_fn is sort_key
DepMonth ==
    /\ dep_pc = "loop"
    /\ dep_month < max_months /\ AnyOwed(dep_heap, dep_debts)
    /\ dep_month' = dep_month + 1
    /\ dep_debts' = SortDebts(dep_debts, dep_heap, method)
    /\ dep_heap' = DepExtraWalk(
                       DepMinimumLoop(DepInterestLoop(dep_heap, dep_debts', 1), dep_debts', 1),
                       dep_debts', 1, given.extra_payment)
    /\ IF Signalled(dep_heap', dep_debts')
       THEN /\ dep_pc' = "raised"
            /\ dep_schedule' = dep_schedule
       ELSE /\ dep_pc' = "loop"
            /\ dep_schedule' = Append(dep_schedule, DepSnapshot(dep_heap', dep_debts', dep_month'))
    /\ UNCHANGED dep_result
    /\ UNCHANGED <<payoffVars, analyticsVars, normalizerVars>>

\* lines 82-87
DepReturn ==
    /\ dep_pc = "loop"
    /\ ~ (dep_month < max_months /\ AnyOwed(dep_heap, dep_debts))
    /\ dep_pc' = "done"
    /\ dep_result' = [method |-> method, months |-> dep_month, schedule |-> dep_schedule,
                      done |-> AllPaid(dep_heap, dep_debts)]
    /\ UNCHANGED <<dep_heap, dep_debts, dep_month, dep_schedule>>
    /\ UNCHANGED <<payoffVars, analyticsVars, normalizerVars>>

\* both simulators are called with the same arguments, one after the other
BothInit == PayoffCalled /\ DepAt("call")

BothNext == PayoffNext \/ DepCall \/ DepMonth \/ DepReturn

SpecBoth == BothInit /\ [][BothNext]_vars

(***************************************************************************)
(* Properties of payoff_plan.                                              *)
(***************************************************************************)
\* the list the name `debts` is bound to, and its objects
Local == lists[debts]
LocalDebt(i) == heap[Local[i]]

\* a month has been simulated, and its arithmetic raised nothing
MonthRun == month >= 1 /\ pc \in {"loop", "done"}

\* the balance entry e of the schedule shows for the debt called name
BalanceIn(e, name) ==
    LET i == CHOOSE i \in 1..Len(e.debts) : e.debts[i].name = name
    IN  DecimalOfStr(e.debts[i].balance)

\* the balance of the debt called name before month k: the quantized balance
\* it was given with, or the one of the snapshot before
BalanceBefore(k, name) ==
    IF k = 1
    THEN LET i == CHOOSE i \in 1..Len(given.debts) : given.debts[i].name = name
         IN  quantize_cents(given.debts[i].balance)
    ELSE BalanceIn(schedule[k - 1], name)

LastEntry == schedule[Len(schedule)]

\* C1: every iteration of the while loop advances the month by one and the month
\* never passes 600, so the loop ends within 600 iterations, by the return or by
\* an exception, after which nothing runs; the months returned are in 0..600.
C1_LoopEndsWithinCap ==
    [][/\ month' \in 0..600
       /\ Len(schedule') <= 600
       /\ pc' = "done" => result'.months \in 0..600
       /\ (pc = "loop" /\ pc' = "loop") => month' = month + 1
       /\ pc \notin {"done", "raised"}
      ]_payoffVars

\* the cap is hit with a balance unpaid
C1_Witness == pc = "done" /\ result.months = 600 /\ ~ result.done

\* C2: done is true exactly when no debt has a balance > 0 when the loop stops:
\* always when it stops before month 600, never at month 600 with a balance > 0,
\* and also when the last balance reaches 0 in month 600.
C2_DoneIffPaid ==
    pc = "done" =>
        /\ result.done <=> \A i \in 1..Len(Local) : DecLe(LocalDebt(i).balance, DecZero)
        /\ result.months < 600 => result.done
        /\ (result.months = 600 /\ \E i \in 1..Len(Local) : DecGt(LocalDebt(i).balance, DecZero))
              => ~ result.done

\* the last balance reaches 0 in month 600
C2_Witness == pc = "done" /\ result.months = 600 /\ result.done

\* C3: the caller's list keeps its length and order and the caller's Debt objects
\* their name, balance, apr and min_payment, in every state of the call.
C3_InputNotMutated ==
    /\ Len(lists.caller) = Len(given.debts)
    /\ \A i \in 1..Len(given.debts) : lists.caller[i] = i /\ heap[i] = given.debts[i]

\* the call returned after the copies were re-ordered and paid down
C3_Witness ==
    /\ pc = "done"
    /\ result.months > 0
    /\ \E i \in 1..Len(Local) : Local[i] # Len(given.debts) + i
    /\ \E i \in 1..Len(given.debts) :
          heap[Len(given.debts) + i].balance # given.debts[i].balance

\* debt x may stand before debt y in the documented order of method m
Ahead(x, y, m) ==
    IF m = "avalanche"
    THEN DecGt(x.apr, y.apr) \/ (DecEq(x.apr, y.apr) /\ DecLe(x.balance, y.balance))
    ELSE DecLt(x.balance, y.balance) \/ (DecEq(x.balance, y.balance) /\ DecGe(x.apr, y.apr))

\* C4: in every month the list is in the method's priority order of the balances
\* the month began with, and a debt is paid from the extra payment only if every
\* debt before it in that order ends the month with balance 0.
C4_ExtraInPriorityOrder ==
    MonthRun =>
        /\ \A i, j \in 1..Len(Local) :
              i < j => Ahead(at_begin[Local[i]], at_begin[Local[j]], method)
        /\ \A j \in 1..Len(Local) :
              DecLt(LocalDebt(j).balance, after_minimums[Local[j]].balance)
              => \A i \in 1..(j - 1) : IsZero(LocalDebt(i).balance)

\* the extra payment reaches the second debt of the list in a call in which the
\* order of the list changed from one month to the next
C4_Witness ==
    /\ MonthRun
    /\ Len(Local) >= 2
    /\ DecLt(LocalDebt(2).balance, after_minimums[Local[2]].balance)
    /\ \E k \in 1..(Len(schedule) - 1) : \E i \in 1..Len(schedule[k].debts) :
          schedule[k].debts[i].name # schedule[k + 1].debts[i].name

\* the first month's interest of a debt as given, as lines 48 and 71 compute it
FirstInterest(d) ==
    quantize_cents(DecMul(quantize_cents(to_decimal(d.balance)), _monthly_rate(to_decimal(d.apr))))

\* C5: with no extra payment, a debt whose monthly interest exceeds its minimum
\* payment grows in every snapshot, and the call returns months = 600, done = false.
C5_GrowsToTheCap ==
    \A i \in 1..Len(given.debts) :
        (/\ DecLe(quantize_cents(given.extra_payment), DecZero)
         /\ DecGt(FirstInterest(given.debts[i]), quantize_cents(given.debts[i].min_payment)))
        => /\ pc # "raised"
           /\ pc = "done" => (result.months = 600 /\ ~ result.done)
           /\ Len(schedule) >= 1 =>
                 DecGt(BalanceIn(LastEntry, given.debts[i].name),
                       BalanceBefore(Len(schedule), given.debts[i].name))

\* C6: a debt with balance 0 when a month begins has balance 0 after the month's
\* interest, minimum payment and extra payment; a debt at 0 when given, or in a
\* snapshot, is at 0 in the next snapshot.
C6_PaidOffStaysPaid ==
    MonthRun =>
        /\ \A i \in 1..Len(Local) : IsZero(at_begin[Local[i]].balance) =>
              /\ IsZero(after_interest[Local[i]].balance)
              /\ IsZero(after_minimums[Local[i]].balance)
              /\ IsZero(LocalDebt(i).balance)
        /\ \A i \in 1..Len(LastEntry.debts) :
              IsZero(BalanceBefore(Len(schedule), LastEntry.debts[i].name))
              => LastEntry.debts[i].balance = <<"0", ".", "0", "0">>

\* a debt already at 0 in a month in which another debt is paid from the extra
C6_Witness ==
    /\ MonthRun
    /\ \E i \in 1..Len(Local) : IsZero(at_begin[Local[i]].balance)
    /\ \E j \in 1..Len(Local) :
          DecLt(LocalDebt(j).balance, after_minimums[Local[j]].balance)
\* the interest of one month on the balance b at the annual rate apr: the exact
\* product b * apr / 12 rounded half up to the cent (b > 0)
ExactInterest(b, apr) ==
    LET N == BMul(b.int, apr.int)
        e == b.exp + apr.exp + 2
        cents == IF e >= 0
                 THEN BDivSmall(BAdd(BMulSmall(BShift10(N, e), 2), BFromNat(12)), 24)[1]
                 ELSE BDivSmall(BDivPow10(BAdd(BMulSmall(N, 2), BShift10(BFromNat(12), -e)), -e)[1],
                                24)[1]
    IN  Dec(apr.sign, cents, -2)

\* C14: in every month a debt with balance > 0 first has the interest
\* balance * apr / 12, rounded half up to the cent, added to it; the minimum
\* payment min(min_payment, balance) is subtracted after that, and the extra
\* payment after the minimum payment; a debt with balance <= 0 is left alone.
C14_InterestThenPayments ==
    MonthRun =>
        \A i \in 1..Len(Local) :
            LET o == Local[i]
                b == at_begin[o].balance
            IN  IF DecGt(b, DecZero)
                THEN /\ DecEq(after_interest[o].balance,
                              DecAdd(b, ExactInterest(b, at_begin[o].apr)))
                     /\ DecGt(after_interest[o].balance, DecZero) =>
                           DecEq(after_minimums[o].balance,
                                 DecSub(after_interest[o].balance,
                                        DecMin(at_begin[o].min_payment, after_interest[o].balance)))
                     /\ DecLe(heap[o].balance, after_minimums[o].balance)
                ELSE /\ after_interest[o].balance = b
                     /\ after_minimums[o].balance = b
                     /\ heap[o].balance = b

\* C15: the schedule has one entry for every month run, the k-th with month
\* index k, and every entry lists every debt given exactly once by name, paid
\* off or not; the result carries that schedule and its length as months; and
\* when no debt given has a balance > 0 the result is 0 months, an empty
\* schedule and done.
C15_ScheduleListsEveryDebt ==
    /\ pc \in {"loop", "done"} =>
          /\ Len(schedule) = month
          /\ month >= 1 =>
                /\ LastEntry.month = month
                /\ Len(LastEntry.debts) = Len(given.debts)
                /\ \A i \in 1..Len(given.debts) :
                      Cardinality({j \in 1..Len(LastEntry.debts) :
                                     LastEntry.debts[j].name = given.debts[i].name}) = 1
    /\ pc = "done" =>
          /\ result.schedule = schedule
          /\ Len(result.schedule) = result.months
          /\ \A k \in 1..Len(result.schedule) : result.schedule[k].month = k
          /\ (\A i \in 1..Len(given.debts) : DecLe(given.debts[i].balance, DecZero))
                => (result.months = 0 /\ result.schedule = << >> /\ result.done)

\* a call returns after several months, with a debt listed at 0.00 in an entry
\* before the last
C15_Witness ==
    /\ pc = "done"
    /\ result.months >= 3
    /\ Len(given.debts) >= 2
    /\ \E k \in 1..(result.months - 1) : \E j \in 1..Len(result.schedule[k].debts) :
          result.schedule[k].debts[j].balance = <<"0", ".", "0", "0">>

\* the debts are given with balance, apr and min_payment >= 0
NonNegativeInputs ==
    \A i \in 1..Len(given.debts) :
        /\ DecGe(given.debts[i].balance, DecZero)
        /\ DecGe(given.debts[i].apr, DecZero)
        /\ DecGe(given.debts[i].min_payment, DecZero)

\* b is a whole number of cents, not negative
IsCentsNotNegative(b) == ~ IsSignal(b) /\ b.exp = -2 /\ DecGe(b, DecZero)

\* C16: for debts given with balance, apr and min_payment >= 0, the balance of
\* every debt is >= 0 and a whole number of cents when a month begins, after
\* its interest, after its minimum payments and after its extra payment, and
\* in every snapshot.
C16_BalancesNeverNegative ==
    (NonNegativeInputs /\ pc \in {"loop", "done"}) =>
        /\ \A i \in 1..Len(Local) :
              /\ IsCentsNotNegative(at_begin[Local[i]].balance)
              /\ IsCentsNotNegative(after_interest[Local[i]].balance)
              /\ IsCentsNotNegative(after_minimums[Local[i]].balance)
              /\ IsCentsNotNegative(LocalDebt(i).balance)
        /\ month >= 1 =>
              \A j \in 1..Len(LastEntry.debts) :
                  IsCentsNotNegative(DecimalOfStr(LastEntry.debts[j].balance))

\* a month in which the minimum payment and the extra payment both exceed
\* what is left of a debt
C16_Witness ==
    /\ NonNegativeInputs
    /\ MonthRun
    /\ \E i \in 1..Len(Local) :
          /\ DecGt(after_interest[Local[i]].balance, DecZero)
          /\ DecLt(after_interest[Local[i]].balance, at_begin[Local[i]].min_payment)
    /\ \E i \in 1..Len(Local) :
          /\ DecGt(after_minimums[Local[i]].balance, DecZero)
          /\ DecLt(after_minimums[Local[i]].balance, extra_payment)
          /\ IsZero(LocalDebt(i).balance)

\* what the extra-payment walk of the month took off the balances of the
\* debts from position i on
RECURSIVE ExtraApplied(_)
ExtraApplied(i) ==
    IF i > Len(Local) THEN DecZero
    ELSE DecAdd(DecSub(after_minimums[Local[i]].balance, LocalDebt(i).balance),
                ExtraApplied(i + 1))

\* what is owed after the minimum payments by the debts from position i on
RECURSIVE OwedAfterMinimums(_)
OwedAfterMinimums(i) ==
    IF i > Len(Local) THEN DecZero
    ELSE DecAdd(IF DecGt(after_minimums[Local[i]].balance, DecZero)
                THEN after_minimums[Local[i]].balance ELSE DecZero,
                OwedAfterMinimums(i + 1))

\* C17: in every month with an extra payment > 0, the extra-payment walk takes
\* min(extra payment, what is owed after the minimum payments) off the
\* balances, never more than the extra payment; what it leaves of the extra is
\* the rest, and when the walk ends the remaining extra is 0 or no debt is owed.
\* With an extra payment <= 0 it takes nothing.
C17_ExtraFullyApplied ==
    MonthRun =>
        IF DecGt(extra_payment, DecZero)
        THEN /\ DecEq(ExtraApplied(1), DecMin(extra_payment, OwedAfterMinimums(1)))
             /\ DecLe(ExtraApplied(1), extra_payment)
             /\ DecEq(remaining_extra, DecSub(extra_payment, ExtraApplied(1)))
             /\ IsZero(remaining_extra) \/ \A i \in 1..Len(Local) : ~ DecGt(LocalDebt(i).balance, DecZero)
        ELSE IsZero(ExtraApplied(1))

\* a month in which the extra payment pays off one debt, the rest of it goes to
\* the next, and that one is still owed
C17_Witness ==
    /\ MonthRun
    /\ DecGt(extra_payment, DecZero)
    /\ IsZero(remaining_extra)
    /\ \E i, j \in 1..Len(Local) :
          /\ i < j
          /\ DecGt(after_minimums[Local[i]].balance, DecZero) /\ IsZero(LocalDebt(i).balance)
          /\ DecLt(LocalDebt(j).balance, after_minimums[Local[j]].balance)
          /\ DecGt(LocalDebt(j).balance, DecZero)

\* the amount x is a whole number of cents
IsWholeCents(x) == DecEq(quantize_cents(x), x)

\* the arguments are in whole cents, the rates not negative
WholeCentInputs ==
    /\ IsWholeCents(given.extra_payment)
    /\ \A i \in 1..Len(given.debts) :
          /\ IsWholeCents(given.debts[i].balance)
          /\ IsWholeCents(given.debts[i].min_payment)
          /\ DecGe(given.debts[i].apr, DecZero)

\* the float the entry e of the schedule of plans_dep.py shows for the debt
\* called name
DepBalanceIn(e, name) ==
    e.debts[CHOOSE i \in 1..Len(e.debts) : e.debts[i].name = name].balance

\* C18: called with the same debts, extra payment and method, in whole cents and
\* with rates >= 0, the two simulators both return, with the same months, the
\* same done, and in every snapshot for every debt a balance of plans_dep.py
\* that is the float of the balance of backend/plans_debt.py.
C18_SimulatorsAgree ==
    (WholeCentInputs /\ pc \in {"done", "raised"} /\ dep_pc \in {"done", "raised"}) =>
        /\ pc = dep_pc
        /\ pc = "done" =>
              /\ result.months = dep_result.months
              /\ result.done = dep_result.done
              /\ Len(result.schedule) = Len(dep_result.schedule)
              /\ \A k \in 1..Len(result.schedule) : \A i \in 1..Len(given.debts) :
                    FloatOf(BalanceIn(result.schedule[k], given.debts[i].name))
                    = DepBalanceIn(dep_result.schedule[k], given.debts[i].name)

(***************************************************************************)
(* backend/analytics.py.                                                   *)
(*                                                                         *)
(* A transaction is the ORM object's fields the functions read; its date   *)
(* is the day number of the datetime (a datetime at midnight, as           *)
(* _parse_date makes them), so that the days of a difference are the       *)
(* difference of the day numbers.  A dict is the sequence of its items in  *)
(* insertion order.                                                        *)
(***************************************************************************)
Transaction(date, merchant, amount, category) ==
    [date |-> date, merchant |-> merchant, amount |-> amount, category |-> category]

List(items) == [type |-> "list", items |-> items]

HasKey(dict, key) == \E i \in 1..Len(dict) : dict[i].key = key

Lookup(dict, key) == CHOOSE i \in 1..Len(dict) : dict[i].key = key

Uncategorized == <<"U", "n", "c", "a", "t", "e", "g", "o", "r", "i", "z", "e", "d">>

\* category_totals[cat] += value, of a defaultdict whose default is Decimal("0.00")
AddToTotal(category_totals, cat, value) ==
    IF HasKey(category_totals, cat)
    THEN [category_totals EXCEPT ![Lookup(category_totals, cat)].value = DecAdd(@, value)]
    ELSE Append(category_totals, [key |-> cat, value |-> DecAdd(DecOf(0, -2), value)])

\* lines 28-42: the totals after the loop has run over txns
RECURSIVE Totals(_)
Totals(txns) ==
    IF txns = << >>
    THEN [total_income |-> DecOf(0, -2), total_expense |-> DecOf(0, -2),
          category_totals |-> << >>]
    ELSE LET before == Totals(SubSeq(txns, 1, Len(txns) - 1))
             txn == txns[Len(txns)]
             amount == txn.amount
             cat == Or(txn.category, Str(Uncategorized))
         IN  [total_income |-> IF DecGt(amount, DecZero)
                               THEN DecAdd(before.total_income, amount)
                               ELSE before.total_income,
              total_expense |-> IF DecGt(amount, DecZero)
                                THEN before.total_expense
                                ELSE DecAdd(before.total_expense, DecAbs(amount)),
              category_totals |-> AddToTotal(before.category_totals, cat.value, DecAbs(amount))]

\* line 47
NetCashFlow(total_income, total_expense) ==
    quantize_cents(DecSub(total_income, total_expense))

\* lines 44-49
Summary(t) ==
    LET income == quantize_cents(t.total_income)
        expense == quantize_cents(t.total_expense)
        net == NetCashFlow(t.total_income, t.total_expense)
        totals == [i \in 1..Len(t.category_totals) |->
                     [key |-> t.category_totals[i].key,
                      value |-> quantize_cents(t.category_totals[i].value)]]
    IN  IF \/ IsSignal(income) \/ IsSignal(expense) \/ IsSignal(net)
           \/ \E i \in 1..Len(totals) : IsSignal(totals[i].value)
        THEN Raise("InvalidOperation", None)
        ELSE [type |-> "dict",
              total_income |-> DecimalStr(income),
              total_expense |-> DecimalStr(expense),
              net_cash_flow |-> DecimalStr(net),
              category_totals |-> [i \in 1..Len(totals) |->
                                     [key |-> totals[i].key,
                                      value |-> DecimalStr(totals[i].value)]]]

summarize_transactions(txns) == Summary(Totals(txns))

\* lines 67-70: the groups after the loop has run over txns
RECURSIVE Groups(_)
Groups(txns) ==
    IF txns = << >> THEN << >>
    ELSE LET groups == Groups(SubSeq(txns, 1, Len(txns) - 1))
             txn == txns[Len(txns)]
         IN  IF ~ Truthy(txn.merchant) THEN groups
             ELSE IF HasKey(groups, txn.merchant.value)
             THEN [groups EXCEPT ![Lookup(groups, txn.merchant.value)].value = Append(@, txn)]
             ELSE Append(groups, [key |-> txn.merchant.value, value |-> <<txn>>])

\* list.sort(key=lambda t: t.date): stable, an element goes behind those not after it
RECURSIVE SortByDate(_)
SortByDate(txns) ==
    IF txns = << >> THEN << >>
    ELSE LET sorted == SortByDate(SubSeq(txns, 1, Len(txns) - 1))
             txn == txns[Len(txns)]
             k == Cardinality({i \in 1..Len(sorted) : sorted[i].date <= txn.date})
         IN  SubSeq(sorted, 1, k) \o <<txn>> \o SubSeq(sorted, k + 1, Len(sorted))

\* lines 79-82
Intervals(txns) == [i \in 1..(Len(txns) - 1) |-> txns[i + 1].date - txns[i].date]

\* intervals.sort()
RECURSIVE SortInts(_)
SortInts(ints) ==
    IF ints = << >> THEN << >>
    ELSE LET sorted == SortInts(SubSeq(ints, 1, Len(ints) - 1))
             x == ints[Len(ints)]
             k == Cardinality({i \in 1..Len(sorted) : sorted[i] <= x})
         IN  SubSeq(sorted, 1, k) \o <<x>> \o SubSeq(sorted, k + 1, Len(sorted))

\* a faulty variant of Median: the lower of the two middle elements
LowerMedian(intervals) == SortInts(intervals)[((Len(intervals) - 1) \div 2) + 1]

\* lines 85-86 (index len // 2 of a list that counts from 0)
Median(intervals) == SortInts(intervals)[(Len(intervals) \div 2) + 1]

\* sum(abs(t.amount) for t in txns): from the int 0, left to right
RECURSIVE SumAbs(_)
SumAbs(txns) ==
    IF txns = << >> THEN DecOf(0, 0)
    ELSE DecAdd(SumAbs(SubSeq(txns, 1, Len(txns) - 1)), DecAbs(txns[Len(txns)].amount))

\* lines 75-89: what one group appends to `recurring`
Reported(merchant, txns) ==
    IF Len(txns) < 2 THEN << >>
    ELSE LET intervals == Intervals(SortByDate(txns))
         IN  IF intervals # << >> /\ 27 <= Median(intervals) /\ Median(intervals) <= 33
             THEN << <<Str(merchant), quantize_cents(DecDivNat(SumAbs(txns), Len(txns)))>> >>
             ELSE << >>

RECURSIVE ReportedOf(_)
ReportedOf(groups) ==
    IF groups = << >> THEN << >>
    ELSE ReportedOf(SubSeq(groups, 1, Len(groups) - 1))
         \o Reported(groups[Len(groups)].key, groups[Len(groups)].value)

\* lines 52-90
detect_recurring(txns) ==
    LET found == ReportedOf(Groups(txns))
    IN  IF \E i \in 1..Len(found) : IsSignal(found[i][2])
        THEN Raise("InvalidOperation", None)
        ELSE List(found)

\* the call of summarize_transactions
SummarizeTransactions ==
    /\ summary = NotCalled
    /\ summary' = summarize_transactions(transactions)
    /\ UNCHANGED <<transactions, recurring>>
    /\ UNCHANGED <<payoffVars, normalizerVars, depVars>>

\* the call of detect_recurring
DetectRecurring ==
    /\ recurring = NotCalled
    /\ recurring' = detect_recurring(transactions)
    /\ UNCHANGED <<transactions, summary>>
    /\ UNCHANGED <<payoffVars, normalizerVars, depVars>>

\* no call of payoff_plan is under way
PayoffIdle ==
    /\ DepIdle
    /\ pc = "idle"
    /\ heap = << >>
    /\ lists = [caller |-> << >>, local |-> << >>]
    /\ debts = "caller"
    /\ extra_payment = DecZero
    /\ method = "avalanche"
    /\ month = 0
    /\ schedule = << >>
    /\ result = NoResult
    /\ given = [debts |-> << >>, extra_payment |-> DecZero, method |-> "avalanche"]
    /\ at_begin = << >>
    /\ after_interest = << >>
    /\ after_minimums = << >>
    /\ remaining_extra = DecZero

(***************************************************************************)
(* The transactions the functions of backend/analytics.py are called with. *)
(***************************************************************************)
Acme == Str(<<"a", "c", "m", "e">>)
Bolt == Str(<<"b", "o", "l", "t">>)

\* Decimal("<thousandths>e-3")
Milli(n) == DecOf(n, -3)

TxnPool ==
    << Transaction(0, Acme, Money(-999), Str(<<"s", "u", "b", "s">>)),
       Transaction(31, Acme, Money(-1000), Str(<<"s", "u", "b", "s">>)),
       Transaction(60, Acme, Milli(-10005), None),
       Transaction(100, Acme, Money(-500), Str(<< >>)),
       Transaction(0, Bolt, Milli(5), Str(<<"p", "a", "y">>)),
       Transaction(30, None, Milli(-4), None),
       Transaction(58, Str(<< >>), Money(1250), Str(<<"p", "a", "y">>)),
       Transaction(27, Bolt, Money(0), Str(<<"s", "u", "b", "s">>)) >>

MaxTxns == 3

TxnSeqs(n) ==
    UNION { { [i \in 1..k |-> TxnPool[p[i]]] : p \in [1..k -> 1..Len(TxnPool)] } : k \in 0..n }

AnalyticsInit ==
    /\ transactions \in TxnSeqs(MaxTxns)
    /\ summary = NotCalled
    /\ recurring = NotCalled
    /\ raw_transactions = << >>
    /\ normalized = NotCalled
    /\ NoIngest
    /\ PayoffIdle

AnalyticsNext == SummarizeTransactions \/ DetectRecurring

SpecAnalytics == AnalyticsInit /\ [][AnalyticsNext]_vars
(***************************************************************************)
(* backend/normalizer.py.                                                  *)
(*                                                                         *)
(* A raw record is a function from the keys it has to str values or None,  *)
(* and a datetime is its year, month and day (the formats have no time of  *)
(* day).                                                                   *)
(***************************************************************************)
\* raw.get(key)
Get(raw, key) == IF key \in DOMAIN raw THEN raw[key] ELSE None

\* raw.get(key, default)
GetOr(raw, key, default) == IF key \in DOMAIN raw THEN raw[key] ELSE default

\* the parts of s between the occurrences of the character sep
RECURSIVE SplitAt(_, _)
SplitAt(s, sep) ==
    IF \A i \in 1..Len(s) : s[i] # sep THEN <<s>>
    ELSE LET i == CHOOSE i \in 1..Len(s) : s[i] = sep /\ \A j \in 1..(i - 1) : s[j] # sep
         IN  <<SubSeq(s, 1, i - 1)>> \o SplitAt(SubSeq(s, i + 1, Len(s)), sep)

NonZeroDigits == {"1", "2", "3", "4", "5", "6", "7", "8", "9"}

\* the regular expressions strptime matches the directives with:
\* %Y is \d\d\d\d, %m is 1[0-2]|0[1-9]|[1-9], %d is 3[01]|[12]\d|0[1-9]|[1-9]| [1-9]
MatchesDirective(directive, p) ==
    IF directive = "Y" THEN Len(p) = 4 /\ \A i \in 1..4 : IsDigit(p[i])
    ELSE IF directive = "m"
    THEN \/ Len(p) = 2 /\ p[1] = "1" /\ p[2] \in {"0", "1", "2"}
         \/ Len(p) = 2 /\ p[1] = "0" /\ p[2] \in NonZeroDigits
         \/ Len(p) = 1 /\ p[1] \in NonZeroDigits
    ELSE \/ Len(p) = 2 /\ p[1] = "3" /\ p[2] \in {"0", "1"}
         \/ Len(p) = 2 /\ p[1] \in {"1", "2"} /\ IsDigit(p[2])
         \/ Len(p) = 2 /\ p[1] \in {"0", " "} /\ p[2] \in NonZeroDigits
         \/ Len(p) = 1 /\ p[1] \in NonZeroDigits

\* int() of what a directive matched
DirectiveValue(p) == IF p[1] = " " THEN NatOfChars(Tail(p)) ELSE NatOfChars(p)

IsLeap(year) == year % 4 = 0 /\ (year % 100 # 0 \/ year % 400 = 0)

DaysInMonth(year, m) ==
    IF m = 2 THEN (IF IsLeap(year) THEN 29 ELSE 28)
    ELSE IF m \in {4, 6, 9, 11} THEN 30 ELSE 31

\* the position of a directive in a format
Position(fmt, directive) == CHOOSE i \in 1..3 : fmt.directives[i] = directive

\* datetime.strptime(date_str, fmt), fmt three directives with fmt.sep between
\* them: the whole string has to match, and the date has to exist
strptime(date_str, fmt) ==
    LET parts == SplitAt(date_str, fmt.sep)
    IN  IF Len(parts) = 3 /\ \A i \in 1..3 : MatchesDirective(fmt.directives[i], parts[i])
        THEN LET year == DirectiveValue(parts[Position(fmt, "Y")])
                 m == DirectiveValue(parts[Position(fmt, "m")])
                 day == DirectiveValue(parts[Position(fmt, "d")])
             IN  IF year >= 1 /\ day <= DaysInMonth(year, m)
                 THEN [type |-> "datetime", year |-> year, month |-> m, day |-> day]
                 ELSE Raise("ValueError", Str(date_str))
        ELSE Raise("ValueError", Str(date_str))

\* the formats with the day-first one tried before the month-first one
DayFirstFormats ==
    << [directives |-> <<"Y", "m", "d">>, sep |-> "-"],
       [directives |-> <<"d", "m", "Y">>, sep |-> "/"],
       [directives |-> <<"m", "d", "Y">>, sep |-> "/"] >>

\* line 30: "%Y-%m-%d", "%m/%d/%Y", "%d/%m/%Y"
formats ==
    << [directives |-> <<"Y", "m", "d">>, sep |-> "-"],
       [directives |-> <<"m", "d", "Y">>, sep |-> "/"],
       [directives |-> <<"d", "m", "Y">>, sep |-> "/"] >>

\* lines 31-36: the first format that parses, from the i-th on
RECURSIVE ParseFrom(_, _)
ParseFrom(date_str, i) ==
    IF i > Len(formats) THEN Raise("ValueError", Str(date_str))
    ELSE IF ~ IsRaise(strptime(date_str, formats[i])) THEN strptime(date_str, formats[i])
    ELSE ParseFrom(date_str, i + 1)

_parse_date(date_str) == ParseFrom(date_str, 1)

\* Decimal(str(amount)) of a str amount
_to_decimal(amount) == DecimalOfStr(amount.value)

IsSpace(c) == c \in {" ", "\t"}

\* str.strip()
RECURSIVE Strip(_)
Strip(s) ==
    IF s = << >> THEN s
    ELSE IF IsSpace(s[1]) THEN Strip(Tail(s))
    ELSE IF IsSpace(s[Len(s)]) THEN Strip(SubSeq(s, 1, Len(s) - 1))
    ELSE s

\* desc.split()[0] of a stripped, non-empty desc
RECURSIVE FirstWord(_)
FirstWord(desc) ==
    IF desc = << >> \/ IsSpace(desc[1]) THEN << >>
    ELSE <<desc[1]>> \o FirstWord(Tail(desc))

LowerCase == <<"a", "b", "c", "d", "e", "f", "g", "h", "i", "j", "k", "l", "m", "n", "o", "p", "q", "r", "s", "t", "u", "v", "w", "x", "y", "z">>

UpperCase == <<"A", "B", "C", "D", "E", "F", "G", "H", "I", "J", "K", "L", "M", "N", "O", "P", "Q", "R", "S", "T", "U", "V", "W", "X", "Y", "Z">>

\* str.upper()
Upper(s) ==
    [i \in 1..Len(s) |->
       IF \E k \in 1..26 : LowerCase[k] = s[i]
       THEN UpperCase[CHOOSE k \in 1..26 : LowerCase[k] = s[i]]
       ELSE s[i]]

\* lines 64-65
DateOf(raw) ==
    LET date_raw == Or(Get(raw, "date"), Or(Get(raw, "timestamp"), Get(raw, "datetime")))
    IN  IF Truthy(date_raw) THEN _parse_date(date_raw.value) ELSE None

\* the payee named before the merchant
PayeeFirst(raw) ==
    LET merchant == Or(Get(raw, "payee"), Get(raw, "merchant"))
        description == GetOr(raw, "description", Str(<< >>))
    IN  IF Truthy(merchant) THEN merchant
        ELSE IF description.type # "str" THEN Raise("AttributeError", description)
        ELSE IF Strip(description.value) # << >>
        THEN Str(FirstWord(Strip(description.value)))
        ELSE Str(<<"U", "n", "k", "n", "o", "w", "n">>)

\* lines 68-71; None has no strip()
MerchantOf(raw) ==
    LET merchant == Or(Get(raw, "merchant"), Get(raw, "payee"))
        description == GetOr(raw, "description", Str(<< >>))
    IN  IF Truthy(merchant) THEN merchant
        ELSE IF description.type # "str" THEN Raise("AttributeError", description)
        ELSE IF Strip(description.value) # << >>
        THEN Str(FirstWord(Strip(description.value)))
        ELSE Str(<<"U", "n", "k", "n", "o", "w", "n">>)

\* lines 74-75
AmountOf(raw) ==
    IF Get(raw, "amount").type # "NoneType" THEN _to_decimal(Get(raw, "amount")) ELSE DecOf(0, 0)

\* line 78; None has no upper()
CurrencyOf(raw) ==
    LET currency == GetOr(raw, "currency", Str(<<"U", "S", "D">>))
    IN  IF currency.type = "str" THEN Str(Upper(currency.value))
        ELSE Raise("AttributeError", currency)

\* lines 42-95: the statements run in order, and the first that raises ends the call
normalize_transaction(raw) ==
    IF IsRaise(DateOf(raw)) THEN DateOf(raw)
    ELSE IF IsRaise(MerchantOf(raw)) THEN MerchantOf(raw)
    ELSE IF IsSignal(AmountOf(raw)) THEN Raise("InvalidOperation", Get(raw, "amount"))
    ELSE IF IsRaise(CurrencyOf(raw)) THEN CurrencyOf(raw)
    ELSE [type |-> "dict",
          date |-> DateOf(raw),
          merchant |-> MerchantOf(raw),
          amount |-> AmountOf(raw),
          currency |-> CurrencyOf(raw),
          category |-> Get(raw, "category"),
          description |-> GetOr(raw, "description", Str(<< >>)),
          account |-> Get(raw, "account")]

\* a faulty variant: a comprehension that leaves the records out that fail
RECURSIVE NormalizeThoseThatParse(_)
NormalizeThoseThatParse(rts) ==
    IF rts = << >> THEN List(<< >>)
    ELSE LET before == NormalizeThoseThatParse(SubSeq(rts, 1, Len(rts) - 1))
             item == normalize_transaction(rts[Len(rts)])
         IN  IF IsRaise(item) THEN before ELSE List(Append(before.items, item))

\* lines 97-99: the list comprehension runs over the records in order, and an
\* exception leaves it with no list
RECURSIVE NormalizeEach(_)
NormalizeEach(rts) ==
    IF rts = << >> THEN List(<< >>)
    ELSE LET before == NormalizeEach(SubSeq(rts, 1, Len(rts) - 1))
             item == normalize_transaction(rts[Len(rts)])
         IN  IF IsRaise(before) THEN before
             ELSE IF IsRaise(item) THEN item
             ELSE List(Append(before.items, item))

normalize_transactions(rts) == NormalizeEach(rts)

(***************************************************************************)
(* backend/csv_ingest.py.                                                  *)
(*                                                                         *)
(* The file is what csv.reader makes of it: the row of the field names and *)
(* the rows of fields after it.  A column map is a function from column    *)
(* names to field names, with an empty domain for None and for {}.         *)
(***************************************************************************)
\* dict(items): the value of a key is the value of its last item
DictOf(items) ==
    [k \in {items[i].key : i \in 1..Len(items)} |->
        items[CHOOSE i \in 1..Len(items) :
                 items[i].key = k /\ \A j \in (i + 1)..Len(items) : items[j].key # k].value]

\* the keys of dict(items) in the order a loop over the dict meets them
RECURSIVE KeysOf(_)
KeysOf(items) ==
    IF items = << >> THEN << >>
    ELSE LET before == KeysOf(SubSeq(items, 1, Len(items) - 1))
             k == items[Len(items)].key
         IN  IF \E i \in 1..Len(before) : before[i] = k THEN before ELSE Append(before, k)

\* csv.DictReader: the items of the dict of a row; a field name the row is too
\* short for gets restval, None.  The fields a row has beyond the field names
\* go under the key None, which no raw.get() of normalizer.py reads: that item
\* is left out.
RowItems(fieldnames, row) ==
    [i \in 1..Len(fieldnames) |->
        [key |-> fieldnames[i], value |-> IF i <= Len(row) THEN Str(row[i]) ELSE None]]

\* line 33: {column_map.get(k, k): v for k, v in row.items()}
Renamed(items, cmap) ==
    LET keys == KeysOf(items)
    IN  DictOf([i \in 1..Len(keys) |->
                  [key |-> IF keys[i] \in DOMAIN cmap THEN cmap[keys[i]] ELSE keys[i],
                   value |-> DictOf(items)[keys[i]]]])

\* lines 31-36: the rows from the i-th on; csv.DictReader skips the rows with
\* no field at all
RECURSIVE IngestFrom(_, _, _)
IngestFrom(file, cmap, i) ==
    IF i > Len(file.rows) THEN << >>
    ELSE IF file.rows[i] = << >> THEN IngestFrom(file, cmap, i + 1)
    ELSE << IF DOMAIN cmap # {}
            THEN Renamed(RowItems(file.fieldnames, file.rows[i]), cmap)
            ELSE DictOf(RowItems(file.fieldnames, file.rows[i])) >>
         \o IngestFrom(file, cmap, i + 1)

\* lines 16-37
ingest_csv(file, cmap) == IngestFrom(file, cmap, 1)

\* the call of ingest_csv
IngestCsv ==
    /\ ingest_pc = "call"
    /\ raw_transactions' = ingest_csv(csvfile, column_map)
    /\ ingest_pc' = "returned"
    /\ UNCHANGED <<normalized, csvfile, column_map>>
    /\ UNCHANGED <<payoffVars, analyticsVars, depVars>>

\* the call of normalize_transactions, with records of any source
NormalizeTransactions ==
    /\ ingest_pc # "call"
    /\ normalized = NotCalled
    /\ normalized' = normalize_transactions(raw_transactions)
    /\ UNCHANGED <<raw_transactions, csvfile, column_map, ingest_pc>>
    /\ UNCHANGED <<payoffVars, analyticsVars, depVars>>

(***************************************************************************)
(* The raw records normalize_transactions is called with.                  *)
(***************************************************************************)
RawPool ==
    << [date |-> Str(<<"2", "0", "2", "4", "-", "0", "1", "-", "3", "1">>), merchant |-> Str(<<"A", "c", "m", "e">>), amount |-> Str(<<"1", "2", ".", "5", "0">>),
        currency |-> Str(<<"u", "s", "d">>), category |-> Str(<<"f", "o", "o", "d">>),
        description |-> Str(<<"A", "c", "m", "e", " ", "s", "t", "o", "r", "e">>), account |-> Str(<<"c", "h", "k">>)],
       [timestamp |-> Str(<<"0", "3", "/", "0", "4", "/", "2", "0", "2", "4">>), payee |-> Str(<<"B", "o", "l", "t">>), amount |-> Str(<<"-", "3", ".", "1">>)],
       [date |-> None, datetime |-> Str(<<"1", "3", "/", "0", "2", "/", "2", "0", "2", "4">>), description |-> Str(<<" ", " ", "c", "o", "f", "f", "e", "e", " ", "s", "h", "o", "p", " ">>),
        amount |-> Str(<<"1", "9", ".", "9", "9", "9">>)],
       [merchant |-> Str(<<"A", "c", "m", "e">>), amount |-> Str(<<"5">>)],
       [date |-> Str(<< >>), timestamp |-> None, description |-> Str(<< >>)],
       [date |-> Str(<<"2", "0", "2", "4", "-", "0", "2", "-", "3", "0">>), merchant |-> Str(<<"A", "c", "m", "e">>)],
       [date |-> Str(<<"2", "0", "2", "4", "-", "0", "1", "-", "3", "1">>), merchant |-> Str(<<"A", "c", "m", "e">>), currency |-> None],
       [date |-> Str(<<"0", "2", "/", "3", "0", "/", "2", "0", "2", "4">>), description |-> Str(<<"r", "e", "n", "t">>)],
       [date |-> Str(<<"2", "0", "2", "4", "-", "0", "1", "-", "3", "1">>), merchant |-> Str(<<"A", "c", "m", "e">>), amount |-> Str(<<"a", "b", "c">>)],
       [date |-> Str(<<"2", "0", "2", "4", "-", "0", "1", "-", "3", "1">>), merchant |-> None, description |-> None],
       [date |-> Str(<<"2", "0", "2", "4", "-", "0", "3", "-", "0", "5">>), merchant |-> Str(<<"A", "c", "m", "e">>), payee |-> Str(<<"B", "o", "l", "t">>), category |-> Str(<< >>)],
       [date |-> Str(<<"1", "2", "/", "3", "1", "/", "2", "0", "2", "3">>), merchant |-> Str(<< >>), payee |-> Str(<<"B", "o", "l", "t">>), description |-> Str(<<"C", "a", "f", "e", " ", "x">>), account |-> None] >>

\* the files ingest_csv is called with, and the column maps
FieldNames ==
    { <<"date", "merchant", "payee", "amount", "currency", "description">>,
      <<"Date", "Payee", "Memo", "Amount">> }

RowPool ==
    << <<<<"2", "0", "2", "4", "-", "0", "1", "-", "3", "1">>, <<"A", "c", "m", "e">>, <<"B", "o", "l", "t">>, <<"1", "2", ".", "5", "0">>, <<"u", "s", "d">>, <<"A", "c", "m", "e", " ", "s", "t", "o", "r", "e">>>>,
       <<<<"0", "3", "/", "0", "4", "/", "2", "0", "2", "4">>, << >>, <<"B", "o", "l", "t">>>>,
       <<<<"1", "3", "/", "0", "2", "/", "2", "0", "2", "4">>, << >>, << >>, <<"5">>, << >>, <<" ", " ", "c", "o", "f", "f", "e", "e", " ", "s", "h", "o", "p", " ">>>>,
       << >>,
       <<<<"2", "0", "2", "4", "-", "0", "2", "-", "3", "0">>>>,
       <<<<"2", "0", "2", "4", "-", "0", "1", "-", "3", "1">>>>,
       <<<<"2", "0", "2", "4", "-", "0", "1", "-", "3", "1">>, << >>, << >>, <<"-", "3", ".", "1">>, <<"e", "u", "r">>, <<" ", "\t">>>> >>

ColumnMaps ==
    { << >>, [Date |-> "date", Payee |-> "payee", Memo |-> "description", Amount |-> "amount"] }

RowSeqs(n) ==
    UNION { { [i \in 1..k |-> RowPool[p[i]]] : p \in [1..k -> 1..Len(RowPool)] } : k \in 0..n }

MaxRaws == 2

RawSeqs(n) ==
    UNION { { [i \in 1..k |-> RawPool[p[i]]] : p \in [1..k -> 1..Len(RawPool)] } : k \in 0..n }

NormalizerInit ==
    /\ \/ /\ raw_transactions \in RawSeqs(MaxRaws)
          /\ NoIngest
       \/ /\ raw_transactions = << >>
          /\ csvfile \in [fieldnames : FieldNames, rows : RowSeqs(MaxRaws)]
          /\ column_map \in ColumnMaps
          /\ ingest_pc = "call"
    /\ normalized = NotCalled
    /\ transactions = << >>
    /\ summary = NotCalled
    /\ recurring = NotCalled
    /\ PayoffIdle

NormalizerNext == IngestCsv \/ NormalizeTransactions

SpecNormalizer == NormalizerInit /\ [][NormalizerNext]_vars

(***************************************************************************)
(* Properties of backend/analytics.py.                                     *)
(***************************************************************************)
\* C7: the net cash flow summarize_transactions returns is the total income it
\* returns minus the total expense it returns, as numbers, for every input.
C7_NetIsIncomeMinusExpense ==
    summary.type = "dict" =>
        DecEq(DecimalOfStr(summary.net_cash_flow),
              DecSub(DecimalOfStr(summary.total_income), DecimalOfStr(summary.total_expense)))

\* the transactions of the merchant whose name is the str m
GroupOf(m) == {i \in 1..Len(transactions) : transactions[i].merchant = Str(m)}

DatesBefore(G, v) == Cardinality({i \in G : transactions[i].date < v})

DatesUpTo(G, v) == Cardinality({i \in G : transactions[i].date <= v})

\* the k-th date of the group G in ascending order
DateAt(G, k) ==
    CHOOSE v \in {transactions[i].date : i \in G} : DatesBefore(G, v) < k /\ k <= DatesUpTo(G, v)

\* the day-deltas of consecutive transactions of G by date
DeltasOf(G) == [j \in 1..(Cardinality(G) - 1) |-> DateAt(G, j + 1) - DateAt(G, j)]

\* the delta at index floor(n / 2), counted from 0, of the n deltas in ascending order
MiddleDelta(G) ==
    LET d == DeltasOf(G)
        n == Len(d)
    IN  CHOOSE v \in {d[j] : j \in 1..n} :
            /\ Cardinality({j \in 1..n : d[j] < v}) <= n \div 2
            /\ n \div 2 < Cardinality({j \in 1..n : d[j] <= v})

Monthly(G) == Cardinality(G) >= 2 /\ MiddleDelta(G) \in 27..33

\* the sum of |amount| over G in thousandths
RECURSIVE ThousandthsOf(_)
ThousandthsOf(G) ==
    IF G = {} THEN 0
    ELSE LET i == CHOOSE i \in G : TRUE
         IN  BToNat(CoefAt(transactions[i].amount, -3)) + ThousandthsOf(G \ {i})

\* the Decimal amount is c cents, and c is the mean of |amount| over G rounded
\* half up to the cent
IsMeanInCents(amount, G) ==
    LET c == BToNat(amount.int)
        n == Cardinality(G)
    IN  /\ amount.exp = -2 /\ amount.sign = 0
        /\ 20 * n * c <= 2 * ThousandthsOf(G) + 10 * n
        /\ 2 * ThousandthsOf(G) + 10 * n < 20 * n * (c + 1)

MerchantNames == {transactions[i].merchant.value :
                    i \in {j \in 1..Len(transactions) : transactions[j].merchant.type = "str"}}

\* C9: detect_recurring reports a merchant exactly when its group has at least
\* two transactions and the middle one (index floor(n / 2)) of its n sorted
\* day-deltas is in 27..33; it reports no merchant twice and none without a
\* name, and the amount reported is the mean of |amount| rounded to the cent.
C9_RecurringIffMonthly ==
    recurring # NotCalled =>
        /\ recurring.type = "list"
        /\ \A m \in MerchantNames :
              (\E k \in 1..Len(recurring.items) : recurring.items[k][1] = Str(m))
              <=> (m # << >> /\ Monthly(GroupOf(m)))
        /\ \A k \in 1..Len(recurring.items) :
              /\ recurring.items[k][1].type = "str"
              /\ recurring.items[k][1].value \in MerchantNames \ {<< >>}
              /\ IsMeanInCents(recurring.items[k][2], GroupOf(recurring.items[k][1].value))
              /\ \A l \in 1..Len(recurring.items) :
                    recurring.items[l][1] = recurring.items[k][1] => l = k

\* a merchant is reported whose two deltas straddle the window: the lower one
\* is under 27
C9_Witness ==
    /\ recurring # NotCalled
    /\ recurring.type = "list"
    /\ \E k \in 1..Len(recurring.items) :
          LET G == GroupOf(recurring.items[k][1].value)
          IN  /\ Cardinality(G) = 3
              /\ \E j \in 1..2 : DeltasOf(G)[j] < 27
(***************************************************************************)
(* Properties of backend/normalizer.py.                                    *)
(***************************************************************************)
\* the raw record has no date, timestamp or datetime with a value
HasNoDate(raw) == \A key \in {"date", "timestamp", "datetime"} : ~ Truthy(Get(raw, key))

\* C8: a call whose first raw record that does not normalize to a dated record
\* is one with none of the date fields fails with the date parse error (the
\* ValueError of _parse_date), and every record a call returns has a parsed date.
C8_NoRecordWithoutDate ==
    normalized # NotCalled =>
        /\ (\E i \in 1..Len(raw_transactions) :
              /\ HasNoDate(raw_transactions[i])
              /\ \A j \in 1..(i - 1) :
                    /\ ~ HasNoDate(raw_transactions[j])
                    /\ ~ IsRaise(normalize_transaction(raw_transactions[j])))
              => (IsRaise(normalized) /\ normalized.exception = "ValueError")
        /\ normalized.type = "list" =>
              \A i \in 1..Len(normalized.items) : normalized.items[i].date.type = "datetime"

\* C10: when every raw record normalizes, normalize_transactions returns a list
\* as long as its argument whose i-th element is normalize_transaction of the
\* i-th raw record; when a record fails, the call raises what the first such
\* record raises, and returns no list.
C10_ElementWiseOrAllFails ==
    normalized # NotCalled =>
        LET failing == {i \in 1..Len(raw_transactions) :
                          IsRaise(normalize_transaction(raw_transactions[i]))}
        IN  IF failing = {}
            THEN /\ normalized.type = "list"
                 /\ Len(normalized.items) = Len(raw_transactions)
                 /\ \A i \in 1..Len(raw_transactions) :
                       normalized.items[i] = normalize_transaction(raw_transactions[i])
            ELSE /\ IsRaise(normalized)
                 /\ normalized = normalize_transaction(
                        raw_transactions[CHOOSE i \in failing : \A j \in failing : i <= j])

\* a batch whose first record normalizes and whose second fails
C10_Witness ==
    /\ normalized # NotCalled
    /\ Len(raw_transactions) = 2
    /\ ~ IsRaise(normalize_transaction(raw_transactions[1]))
    /\ IsRaise(normalize_transaction(raw_transactions[2]))
    /\ IsRaise(normalized)

\* the record has a date that parses, and an amount that is absent, None or a number
WellDated(raw) == DateOf(raw).type = "datetime" /\ ~ IsSignal(AmountOf(raw))

\* C11: when every raw record of a batch has a parseable date, the batch is
\* normalized whichever optional fields are absent, None or empty: no call
\* raises, every merchant is a non-empty str, the currency of a record with no
\* currency value is "USD", and an absent category or account is None.
C11_MissingOptionalNeverFails ==
    normalized # NotCalled =>
        ((\A i \in 1..Len(raw_transactions) : WellDated(raw_transactions[i]))
         => /\ normalized.type = "list"
            /\ \A i \in 1..Len(normalized.items) :
                  LET raw == raw_transactions[i]
                      n == normalized.items[i]
                  IN  /\ n.merchant.type = "str" /\ n.merchant.value # << >>
                      /\ ~ Truthy(Get(raw, "currency")) => n.currency = Str(<<"U", "S", "D">>)
                      /\ "category" \notin DOMAIN raw => n.category = None
                      /\ "account" \notin DOMAIN raw => n.account = None)

\* the first run of characters of s that are not whitespace, << >> if there is none
FirstToken(s) ==
    IF \A i \in 1..Len(s) : IsSpace(s[i]) THEN << >>
    ELSE LET i == CHOOSE i \in 1..Len(s) : ~ IsSpace(s[i]) /\ \A j \in 1..(i - 1) : IsSpace(s[j])
             j == CHOOSE j \in i..Len(s) :
                      /\ \A k \in i..j : ~ IsSpace(s[k])
                      /\ (j = Len(s) \/ IsSpace(s[j + 1]))
         IN  SubSeq(s, i, j)

\* the merchant in the documented order: merchant, payee, first token of the
\* description, "Unknown"
ResolvedMerchant(raw) ==
    IF Truthy(Get(raw, "merchant")) THEN Get(raw, "merchant")
    ELSE IF Truthy(Get(raw, "payee")) THEN Get(raw, "payee")
    ELSE IF Truthy(Get(raw, "description")) /\ FirstToken(Get(raw, "description").value) # << >>
    THEN Str(FirstToken(Get(raw, "description").value))
    ELSE Str(<<"U", "n", "k", "n", "o", "w", "n">>)

\* C12: the merchant of every record normalize_transactions returns is a
\* non-empty str, and it is the raw merchant if that is non-empty, else the raw
\* payee if that is non-empty, else the first whitespace-delimited token of the
\* description, else "Unknown".
C12_MerchantByPriority ==
    (normalized # NotCalled /\ normalized.type = "list") =>
        \A i \in 1..Len(normalized.items) :
            /\ normalized.items[i].merchant.type = "str"
            /\ normalized.items[i].merchant.value # << >>
            /\ normalized.items[i].merchant = ResolvedMerchant(raw_transactions[i])

\* a batch is returned with a record that has both a merchant and a payee, and
\* one whose merchant is a token of its description
C12_Witness ==
    /\ normalized # NotCalled
    /\ normalized.type = "list"
    /\ \E i \in 1..Len(normalized.items) :
          /\ Truthy(Get(raw_transactions[i], "merchant"))
          /\ Truthy(Get(raw_transactions[i], "payee"))
          /\ Get(raw_transactions[i], "merchant") # Get(raw_transactions[i], "payee")
    /\ \E i \in 1..Len(normalized.items) :
          /\ ~ Truthy(Get(raw_transactions[i], "merchant"))
          /\ ~ Truthy(Get(raw_transactions[i], "payee"))
          /\ normalized.items[i].merchant # Get(raw_transactions[i], "description")
          /\ normalized.items[i].merchant.value = FirstToken(Get(raw_transactions[i], "description").value)

\* the value of the date field normalize_transaction parses
DateRaw(raw) == Or(Get(raw, "date"), Or(Get(raw, "timestamp"), Get(raw, "datetime")))

\* p is a number of at least lo and at most hi digits
IsNumber(p, lo, hi) == Len(p) \in lo..hi /\ \A i \in 1..Len(p) : IsDigit(p[i])

\* s is a/b/yyyy with a and b numbers of one or two digits
IsSlashDate(s) ==
    LET p == SplitAt(s, "/")
    IN  Len(p) = 3 /\ IsNumber(p[1], 1, 2) /\ IsNumber(p[2], 1, 2) /\ IsNumber(p[3], 4, 4)

\* s is yyyy-m-d with m and d numbers of one or two digits
IsIsoDate(s) ==
    LET p == SplitAt(s, "-")
    IN  Len(p) = 3 /\ IsNumber(p[1], 4, 4) /\ IsNumber(p[2], 1, 2) /\ IsNumber(p[3], 1, 2)

\* day d of month m of year y is a date of the calendar
IsDate(y, m, d) == y >= 1 /\ m \in 1..12 /\ d >= 1 /\ d <= DaysInMonth(y, m)

DateTime(y, m, d) == [type |-> "datetime", year |-> y, month |-> m, day |-> d]

\* the date parsed from s reads it as the documented order of the formats does
ReadInOrder(s, date) ==
    /\ IsIsoDate(s) =>
          LET p == SplitAt(s, "-")
          IN  IsDate(NatOfChars(p[1]), NatOfChars(p[2]), NatOfChars(p[3]))
              => date = DateTime(NatOfChars(p[1]), NatOfChars(p[2]), NatOfChars(p[3]))
    /\ IsSlashDate(s) =>
          LET p == SplitAt(s, "/")
              a == NatOfChars(p[1])
              b == NatOfChars(p[2])
              y == NatOfChars(p[3])
          IN  /\ IsDate(y, a, b) => date = DateTime(y, a, b)
              /\ (a # b /\ date = DateTime(y, b, a)) => a > 12
    /\ \E k \in 1..3 :
          /\ date = strptime(s, formats[k])
          /\ \A j \in 1..(k - 1) : IsRaise(strptime(s, formats[j]))

\* the first raw record of the batch that does not normalize
FirstFailing ==
    CHOOSE i \in 1..Len(raw_transactions) :
        /\ IsRaise(normalize_transaction(raw_transactions[i]))
        /\ \A j \in 1..(i - 1) : ~ IsRaise(normalize_transaction(raw_transactions[j]))

\* C13: a date value is parsed by the first of ISO, month/day/year and
\* day/month/year that matches it: a/b/yyyy with a <= 12 and b a day of month a
\* is month a, day b; it is day a, month b only when a > 12; and a value none of
\* the three formats matches raises the ValueError that names the raw value.
C13_FormatsInFixedOrder ==
    normalized # NotCalled =>
        IF normalized.type = "list"
        THEN \A i \in 1..Len(normalized.items) :
                Truthy(DateRaw(raw_transactions[i]))
                => ReadInOrder(DateRaw(raw_transactions[i]).value, normalized.items[i].date)
        ELSE LET date_raw == DateRaw(raw_transactions[FirstFailing])
             IN  (/\ Truthy(date_raw)
                  /\ \A k \in 1..3 : IsRaise(strptime(date_raw.value, formats[k])))
                 => normalized = Raise("ValueError", date_raw)

\* a batch is returned in which one a/b/yyyy value with a and b both at most 12
\* is read month first, and one with a > 12 is read day first
C13_Witness ==
    /\ normalized # NotCalled
    /\ normalized.type = "list"
    /\ \E i, j \in 1..Len(normalized.items) :
          LET s == DateRaw(raw_transactions[i])
              t == DateRaw(raw_transactions[j])
          IN  /\ Truthy(s) /\ IsSlashDate(s.value)
              /\ Truthy(t) /\ IsSlashDate(t.value)
              /\ NatOfChars(SplitAt(s.value, "/")[1]) <= 12
              /\ NatOfChars(SplitAt(s.value, "/")[2]) <= 12
              /\ NatOfChars(SplitAt(s.value, "/")[1]) # NatOfChars(SplitAt(s.value, "/")[2])
              /\ normalized.items[i].date.month = NatOfChars(SplitAt(s.value, "/")[1])
              /\ NatOfChars(SplitAt(t.value, "/")[1]) > 12
              /\ normalized.items[j].date.day = NatOfChars(SplitAt(t.value, "/")[1])
====
